---------------------------- MODULE Spec2Model ----------------------------
(***************************************************************************)
(* The bronze / silver / gold pipeline of demo3/pages/5_Demo.py:           *)
(* DataPipeline (process_to_bronze, process_to_silver, process_to_gold),   *)
(* run_pipeline and the part of main that starts a run.                    *)
(*                                                                         *)
(* Values.  A cell of a DataFrame is <<>> when it is missing (NaN, NaT,    *)
(* None) and <<x>> when it holds x.  Dates are day numbers, amounts and    *)
(* quantities are integers, ids are small integers, names are strings.     *)
(* A row is a record over the columns of its table.  A Python dict is a    *)
(* sequence of [key, value] entries with distinct keys, in insertion       *)
(* order.  The measured durations (processing_time) are left out: nothing  *)
(* reads them but the charts.  The clock counts days, the unit of the      *)
(* order dates: it moves between runs and while a run sleeps, and the      *)
(* reads of the clock within one pass of a loop fall on the same day.      *)
(***************************************************************************)
EXTENDS Integers, Sequences, FiniteSets, TLC

VARIABLES
    data,              \* the dict handed to run_pipeline (load_data's result)
    clock,             \* the wall clock (datetime.now(), pd.Timestamp.now())
    pc,                \* position of main / run_pipeline
    idx,               \* position of the running for-loop over a dict
    bronze_layer,      \* DataPipeline.bronze_layer
    silver_layer,      \* DataPipeline.silver_layer
    gold_layer,        \* DataPipeline.gold_layer
    processing_steps,  \* DataPipeline.processing_metrics['processing_steps']
    log,               \* StreamlitHandler.logs of the handler of this run
    handlers,          \* len(logging.getLogger('pipeline_logger').handlers)
    exc,               \* the exception that left run_pipeline, if any
    pipeline,          \* main's local variable `pipeline`
    pipeline_running,  \* st.session_state.pipeline_running
    previous           \* what the run before this one produced, if it completed

\* BusinessDataGenerator (demo3/data/generator.py), a call of generate_all_data.
VARIABLES
    gen_pc,                      \* position of the constructor / generate_all_data
    error_rate,                  \* self.error_rate, in percent
    gen_products,                \* self.products
    gen_customers,               \* self.customers
    gen_sales_orders,            \* generate_all_data's local sales_orders
    gen_order_items,             \* generate_all_data's local order_items
    gen_inventory_transactions,  \* generate_all_data's local inventory_transactions
    gen_financial_transactions,  \* generate_all_data's local financial_transactions
    dataset,                     \* the dict generate_all_data returns
    gen_exc                      \* the exception that left the generator, if any

pipeline_vars ==
    <<data, clock, pc, idx, bronze_layer, silver_layer, gold_layer,
      processing_steps, log, handlers, exc, pipeline, pipeline_running, previous>>

gen_vars ==
    <<gen_pc, error_rate, gen_products, gen_customers, gen_sales_orders, gen_order_items,
      gen_inventory_transactions, gen_financial_transactions, dataset, gen_exc>>

vars == <<pipeline_vars, gen_vars>>

-----------------------------------------------------------------------------
(* Bounds *)

\* Rows of the table whose rows are enumerated.
MaxRows == 2

\* Last day the clock reaches.
MaxClock == 2

\* Days a date cell can hold: before, on or after any day of the clock.
Dates == 1..(MaxClock + 1)

-----------------------------------------------------------------------------
(* Cells *)

NaN == <<>>

Some(x) == <<x>>

IsNa(v) == v = <<>>

\* Series comparisons: a comparison with a missing operand is False.
Lt(a, b) == ~IsNa(a) /\ ~IsNa(b) /\ a[1] < b[1]

Gt(a, b) == ~IsNa(a) /\ ~IsNa(b) /\ a[1] > b[1]

Le(a, b) == ~IsNa(a) /\ ~IsNa(b) /\ a[1] <= b[1]

-----------------------------------------------------------------------------
(* dict *)

Keys(d) == [i \in 1..Len(d) |-> d[i].key]

KeySet(d) == {d[i].key : i \in 1..Len(d)}

Has(d, k) == k \in KeySet(d)

Get(d, k) == d[CHOOSE i \in 1..Len(d) : d[i].key = k].value

\* d[k] = v: an existing key keeps its place, a new key goes last.
Put(d, k, v) ==
    IF Has(d, k)
    THEN [i \in 1..Len(d) |-> IF d[i].key = k THEN [key |-> k, value |-> v] ELSE d[i]]
    ELSE Append(d, [key |-> k, value |-> v])

-----------------------------------------------------------------------------
(* Tables *)

Sources ==
    <<"sales_orders", "order_items", "financial_transactions",
      "inventory_transactions", "products", "customers">>

SourceSet == {Sources[i] : i \in 1..Len(Sources)}

\* The columns of each file that the pipeline reads, and its key.
Columns(source) ==
    CASE source = "sales_orders" ->
            <<"order_id", "customer_id", "order_date", "department">>
      [] source = "order_items" ->
            <<"order_id", "product_id", "line_total">>
      [] source = "financial_transactions" ->
            <<"transaction_id", "invoice_date", "amount", "payment_date">>
      [] source = "inventory_transactions" ->
            <<"transaction_id", "product_id", "quantity", "transaction_date">>
      [] source = "products" ->
            <<"product_id", "name", "category">>
      [] source = "customers" ->
            <<"customer_id", "company_name">>

Range(seq) == {seq[i] : i \in 1..Len(seq)}

DataFrame(columns, rows) == [kind |-> "DataFrame", columns |-> columns, rows |-> rows]

\* A value of the dict that is no DataFrame.
None == [kind |-> "None", columns |-> <<>>, rows |-> <<>>]

\* Sequences over S of length at most n.
SeqsUpTo(S, n) == UNION {[1..k -> S] : k \in 0..n}

SalesOrderRows ==
    [order_id : {Some(1)}, customer_id : {NaN, Some(1)},
     order_date : {NaN} \cup {Some(d) : d \in Dates},
     department : {Some("IT")}]

FinancialRows ==
    [transaction_id : {Some(1)},
     invoice_date : {Some(2)},
     amount : {NaN, Some(-5), Some(0), Some(7)},
     payment_date : {NaN} \cup {Some(d) : d \in 1..3}]

\* A table of every file, as the generator writes them.
Sample(source) ==
    CASE source = "sales_orders" -> DataFrame(Columns(source),
            << [order_id |-> Some(1), customer_id |-> Some(1),
                order_date |-> Some(1), department |-> Some("IT")],
               [order_id |-> Some(2), customer_id |-> NaN,
                order_date |-> Some(1), department |-> Some("HR")] >>)
      [] source = "order_items" -> DataFrame(Columns(source),
            << [order_id |-> Some(1), product_id |-> Some(1), line_total |-> Some(10)],
               [order_id |-> Some(1), product_id |-> Some(2), line_total |-> Some(5)],
               [order_id |-> Some(2), product_id |-> Some(1), line_total |-> Some(7)] >>)
      [] source = "financial_transactions" -> DataFrame(Columns(source),
            << [transaction_id |-> Some(1), invoice_date |-> Some(1),
                amount |-> Some(15), payment_date |-> Some(2)],
               [transaction_id |-> Some(2), invoice_date |-> Some(1),
                amount |-> Some(-5), payment_date |-> Some(1)],
               [transaction_id |-> Some(3), invoice_date |-> NaN,
                amount |-> Some(7), payment_date |-> Some(1)] >>)
      [] source = "inventory_transactions" -> DataFrame(Columns(source),
            << [transaction_id |-> Some(1), product_id |-> Some(1),
                quantity |-> Some(10), transaction_date |-> Some(1)],
               [transaction_id |-> Some(2), product_id |-> Some(1),
                quantity |-> Some(-3), transaction_date |-> Some(2)],
               [transaction_id |-> Some(3), product_id |-> NaN,
                quantity |-> Some(4), transaction_date |-> Some(1)] >>)
      [] source = "products" -> DataFrame(Columns(source),
            << [product_id |-> Some(1), name |-> Some("Router 101"),
                category |-> Some("IT-Equipment")] >>)
      [] source = "customers" -> DataFrame(Columns(source),
            << [customer_id |-> Some(1), company_name |-> Some("ACME")] >>)

\* A header-only file: the columns and no row.
Empty(source) == DataFrame(Columns(source), <<>>)

\* The column a file of another layout lacks.
DroppedColumn(source) ==
    CASE source = "sales_orders" -> "order_date"
      [] source = "order_items" -> "line_total"
      [] source = "financial_transactions" -> "amount"
      [] source = "inventory_transactions" -> "quantity"
      [] source = "products" -> "category"
      [] source = "customers" -> "company_name"

Restrict(row, cols) == [c \in cols |-> row[c]]

\* The sample without one of its columns.
Drifted(source) ==
    LET t == Sample(source)
        cols == SelectSeq(t.columns, LAMBDA c : c # DroppedColumn(source))
    IN  DataFrame(cols, [i \in 1..Len(t.rows) |-> Restrict(t.rows[i], Range(cols))])

Deviants(source) == {Empty(source), None, Drifted(source)}

\* The dict of the sources of `present`, in the order of load_data; the source
\* `odd` holds the table t, every other one its sample.
DictOf(present, odd, t) ==
    LET keys == SelectSeq(Sources, LAMBDA s : s \in present)
    IN  [i \in 1..Len(keys) |->
            [key |-> keys[i],
             value |-> IF keys[i] = odd THEN t ELSE Sample(keys[i])]]

\* Any set of sources, at most one of them with a table out of the ordinary.
InputsBySource ==
    {DictOf(present, "", None) : present \in SUBSET SourceSet}
    \cup {DictOf(w[1], w[2], w[3]) :
            w \in {v \in (SUBSET SourceSet) \X SourceSet \X
                            UNION {Deviants(s) : s \in SourceSet} :
                        v[2] \in v[1] /\ v[3] \in Deviants(v[2])}}

\* One validated source with any rows.
InputsByRows ==
    {<<[key |-> "sales_orders", value |-> DataFrame(Columns("sales_orders"), rows)]>> :
        rows \in SeqsUpTo(SalesOrderRows, MaxRows)}
    \cup
    {<<[key |-> "financial_transactions",
        value |-> DataFrame(Columns("financial_transactions"), rows)]>> :
        rows \in SeqsUpTo(FinancialRows, MaxRows)}

Inputs == InputsBySource \cup InputsByRows

\* Order 1 of one department, order 2 of that or another, each with or
\* without a customer.
SalesOrderRowsForGold ==
    {r \in [order_id : {Some(1), Some(2)}, customer_id : {NaN, Some(1)},
            order_date : {Some(1)}, department : {Some("IT"), Some("HR")}] :
        r.order_id = Some(1) => r.department = Some("IT")}

OrderItemRowsForGold ==
    [order_id : {Some(1), Some(2)}, product_id : {Some(1)},
     line_total : {Some(5), Some(7)}]

\* Movements of product 1, of product 2, or of no product: 10 in on day 1,
\* 3 out on day 2.
InventoryRowsForGold ==
    {r \in [transaction_id : {Some(1)}, product_id : {NaN, Some(1), Some(2)},
            quantity : {Some(-3), Some(10)}, transaction_date : {Some(1), Some(2)}] :
        r.quantity = Some(10) <=> r.transaction_date = Some(1)}

\* Product 1 under two names, product 2.
ProductRowsForGold ==
    {[product_id |-> Some(1), name |-> Some("Router 101"), category |-> Some("IT-Equipment")],
     [product_id |-> Some(1), name |-> Some("Switch 202"), category |-> Some("IT-Equipment")],
     [product_id |-> Some(2), name |-> Some("Toner 303"), category |-> Some("Bürobedarf")]}

Table(source, rows) == [key |-> source, value |-> DataFrame(Columns(source), rows)]

\* The sources of one view, the tables it reads with any rows.
InputsForGold ==
    {<<Table("sales_orders", orders), Table("order_items", items),
       [key |-> "financial_transactions", value |-> Sample("financial_transactions")]>> :
        orders \in SeqsUpTo(SalesOrderRowsForGold, MaxRows),
        items \in SeqsUpTo(OrderItemRowsForGold, MaxRows)}
    \cup
    {<<Table("inventory_transactions", moves), Table("products", master)>> :
        moves \in SeqsUpTo(InventoryRowsForGold, MaxRows),
        master \in SeqsUpTo(ProductRowsForGold, MaxRows)}

-----------------------------------------------------------------------------
(* DataFrame operations *)

RECURSIVE SumCells(_)
\* Series.sum(): the missing cells are skipped, the sum of none is 0.
SumCells(cells) ==
    IF cells = <<>> THEN 0
    ELSE (IF IsNa(Head(cells)) THEN 0 ELSE Head(cells)[1]) + SumCells(Tail(cells))

\* Series.count(): the cells that are not missing.
CountCells(cells) == Len(SelectSeq(cells, LAMBDA v : ~IsNa(v)))

\* Series.max(): the missing cells are skipped, the max of none is missing.
MaxCells(cells) ==
    LET present == {cells[i][1] : i \in {j \in 1..Len(cells) : ~IsNa(cells[j])}}
    IN  IF present = {} THEN NaN
        ELSE Some(CHOOSE m \in present : \A x \in present : x <= m)

Column(rows, c) == [i \in 1..Len(rows) |-> rows[i][c]]

RECURSIVE Flatten(_)
Flatten(seqs) == IF seqs = <<>> THEN <<>> ELSE Head(seqs) \o Flatten(Tail(seqs))

RECURSIVE SortedSeq(_)
SortedSeq(S) ==
    IF S = {} THEN <<>>
    ELSE LET m == CHOOSE x \in S : \A y \in S : x <= y
         IN  <<m>> \o SortedSeq(S \ {m})

\* left.merge(right, on=key, how='left'): every left row, once per right row
\* with its key (a missing key matches a missing key), once with the right
\* columns missing when there is none.
MergeLeft(left, right, key) ==
    LET cols  == left.columns \o SelectSeq(right.columns, LAMBDA c : c # key)
        join(l, r) == [c \in Range(cols) |-> IF c \in DOMAIN l THEN l[c] ELSE r[c]]
        blank(l)   == [c \in Range(cols) |-> IF c \in DOMAIN l THEN l[c] ELSE NaN]
        of(l) == LET m == SelectSeq(right.rows, LAMBDA r : r[key] = l[key])
                 IN  IF m = <<>> THEN <<blank(l)>>
                     ELSE [i \in 1..Len(m) |-> join(l, m[i])]
    IN  DataFrame(cols, Flatten([i \in 1..Len(left.rows) |-> of(left.rows[i])]))

\* The departments, in the order groupby sorts them.
Departments == <<"Einkauf", "Finanzen", "HR", "IT", "Produktion", "Vertrieb">>

\* sales_orders.merge(order_items).groupby('department').agg(order_id count,
\* line_total sum), columns renamed: a row per department that is not missing.
SalesMetrics(sales_orders, order_items) ==
    LET merged == MergeLeft(sales_orders, order_items, "order_id")
        group(d) == SelectSeq(merged.rows, LAMBDA r : r.department = Some(d))
        depts == SelectSeq(Departments, LAMBDA d : group(d) # <<>>)
    IN  DataFrame(<<"department", "order_count", "total_sales">>,
            [i \in 1..Len(depts) |->
                [department  |-> Some(depts[i]),
                 order_count |-> Some(CountCells(Column(group(depts[i]), "order_id"))),
                 total_sales |-> Some(SumCells(Column(group(depts[i]), "line_total")))]])

\* The columns whose absence makes the sales view raise KeyError (the two
\* files share no column but order_id, so merge renames none).
SalesMetricsRaises(sales_orders, order_items) ==
    \/ "order_id" \notin Range(sales_orders.columns)
    \/ "order_id" \notin Range(order_items.columns)
    \/ "department" \notin Range(sales_orders.columns) \cup Range(order_items.columns)
    \/ "line_total" \notin Range(sales_orders.columns) \cup Range(order_items.columns)

\* inventory.groupby('product_id').agg(quantity sum, transaction_date max)
\* merged onto products[['product_id', 'name', 'category']].
\* InventoryStatus with quantity aggregated by count.
InventoryStatusCountingMoves(inventory, products) ==
    LET ids == SortedSeq({inventory.rows[i].product_id[1] :
                    i \in {j \in 1..Len(inventory.rows) :
                              ~IsNa(inventory.rows[j].product_id)}})
        group(p) == SelectSeq(inventory.rows, LAMBDA r : r.product_id = Some(p))
        grouped == DataFrame(<<"product_id", "quantity", "transaction_date">>,
            [i \in 1..Len(ids) |->
                [product_id |-> Some(ids[i]),
                 quantity |-> Some(CountCells(Column(group(ids[i]), "quantity"))),
                 transaction_date |->
                     MaxCells(Column(group(ids[i]), "transaction_date"))]])
        master == DataFrame(<<"product_id", "name", "category">>,
            [i \in 1..Len(products.rows) |->
                Restrict(products.rows[i], {"product_id", "name", "category"})])
    IN  MergeLeft(grouped, master, "product_id")

InventoryStatus(inventory, products) ==
    LET ids == SortedSeq({inventory.rows[i].product_id[1] :
                    i \in {j \in 1..Len(inventory.rows) :
                              ~IsNa(inventory.rows[j].product_id)}})
        group(p) == SelectSeq(inventory.rows, LAMBDA r : r.product_id = Some(p))
        grouped == DataFrame(<<"product_id", "quantity", "transaction_date">>,
            [i \in 1..Len(ids) |->
                [product_id |-> Some(ids[i]),
                 quantity |-> Some(SumCells(Column(group(ids[i]), "quantity"))),
                 transaction_date |->
                     MaxCells(Column(group(ids[i]), "transaction_date"))]])
        master == DataFrame(<<"product_id", "name", "category">>,
            [i \in 1..Len(products.rows) |->
                Restrict(products.rows[i], {"product_id", "name", "category"})])
    IN  MergeLeft(grouped, master, "product_id")

\* The columns whose absence makes the inventory view raise KeyError.
InventoryStatusRaises(inventory, products) ==
    \/ ~({"product_id", "quantity", "transaction_date"} \subseteq Range(inventory.columns))
    \/ ~({"product_id", "name", "category"} \subseteq Range(products.columns))

-----------------------------------------------------------------------------
(* DataPipeline *)

LogEntry(level, msg, source) == [level |-> level, msg |-> msg, source |-> source]

Raised(type, layer, source) == <<[type |-> type, layer |-> layer, source |-> source]>>

\* df.copy(), len(df), df.columns of a value that is no DataFrame.
BronzeRaises(df) == df.kind # "DataFrame"

\* BronzeEntry with the number of columns for the record count (df.shape[1]).
BronzeEntryColumnCount(source, df, now) ==
    [data |-> df,
     metadata |-> [ingestion_time |-> now,
                   record_count |-> Len(df.columns),
                   columns |-> df.columns,
                   source_system |-> source]]

BronzeEntry(source, df, now) ==
    [data |-> df,
     metadata |-> [ingestion_time |-> now,
                   record_count |-> Len(df.rows),
                   columns |-> df.columns,
                   source_system |-> source]]

\* BronzeStepEntry with the number of columns for the record count.
BronzeStepEntryColumnCount(source, df) ==
    [layer |-> "Bronze", source |-> source, records |-> Len(df.columns)]

BronzeStepEntry(source, df) ==
    [layer |-> "Bronze", source |-> source, records |-> Len(df.rows)]

\* InvalidMask without the test of customer_id.
InvalidMaskCustomerOptional(source, row, now) ==
    CASE source = "sales_orders" ->
            \/ IsNa(row.order_date)
            \/ Gt(row.order_date, Some(now))
      [] source = "financial_transactions" ->
            \/ Lt(row.payment_date, row.invoice_date)
            \/ IsNa(row.amount)
            \/ Le(row.amount, Some(0))
      [] OTHER -> FALSE

\* InvalidMask with amount < 0 for amount <= 0.
InvalidMaskZeroAmount(source, row, now) ==
    CASE source = "sales_orders" ->
            \/ IsNa(row.order_date)
            \/ IsNa(row.customer_id)
            \/ Gt(row.order_date, Some(now))
      [] source = "financial_transactions" ->
            \/ Lt(row.payment_date, row.invoice_date)
            \/ IsNa(row.amount)
            \/ Lt(row.amount, Some(0))
      [] OTHER -> FALSE

\* InvalidMask with a mask for the other sources too: a row with a missing cell.
InvalidMaskAnyMissing(source, row, now) ==
    CASE source = "sales_orders" ->
            \/ IsNa(row.order_date)
            \/ IsNa(row.customer_id)
            \/ Gt(row.order_date, Some(now))
      [] source = "financial_transactions" ->
            \/ Lt(row.payment_date, row.invoice_date)
            \/ IsNa(row.amount)
            \/ Le(row.amount, Some(0))
      [] OTHER -> \E c \in DOMAIN row : IsNa(row[c])

\* InvalidMask with payments dated after the processing time invalid too.
InvalidMaskFuturePayment(source, row, now) ==
    CASE source = "sales_orders" ->
            \/ IsNa(row.order_date)
            \/ IsNa(row.customer_id)
            \/ Gt(row.order_date, Some(now))
      [] source = "financial_transactions" ->
            \/ Lt(row.payment_date, row.invoice_date)
            \/ IsNa(row.amount)
            \/ Le(row.amount, Some(0))
            \/ Gt(row.payment_date, Some(now))
      [] OTHER -> FALSE

\* The invalid_mask of a row; no mask is built for the other sources.
InvalidMask(source, row, now) ==
    CASE source = "sales_orders" ->
            \/ IsNa(row.order_date)
            \/ IsNa(row.customer_id)
            \/ Gt(row.order_date, Some(now))
      [] source = "financial_transactions" ->
            \/ Lt(row.payment_date, row.invoice_date)
            \/ IsNa(row.amount)
            \/ Le(row.amount, Some(0))
      [] OTHER -> FALSE

\* The columns the masks index.
MaskColumns(source) ==
    CASE source = "sales_orders" -> {"order_date", "customer_id"}
      [] source = "financial_transactions" -> {"payment_date", "invoice_date", "amount"}
      [] OTHER -> {}

\* The exception the try block of one source raises, "" when it raises none:
\* a column of the mask is not there, or the rate divides by len(...) = 0.
SilverException(source, df) ==
    IF ~(MaskColumns(source) \subseteq Range(df.columns)) THEN "KeyError"
    ELSE IF Len(df.rows) = 0 THEN "ZeroDivisionError"
    ELSE ""

\* ValidationRate without the factor 100.
ValidationRateAsShare(valid_count, bronze_count) ==
    [num |-> valid_count, den |-> bronze_count]

\* len(df) / len(bronze_data['data']) * 100, as the fraction num / den.
ValidationRate(valid_count, bronze_count) ==
    [num |-> valid_count * 100, den |-> bronze_count]

\* invalid_records: df[invalid_mask], or the list [] it was initialised to.
InvalidRecords(source, df, now) ==
    IF source \in {"sales_orders", "financial_transactions"}
    THEN DataFrame(df.columns, SelectSeq(df.rows, LAMBDA r : InvalidMask(source, r, now)))
    ELSE [kind |-> "list", columns |-> <<>>, rows |-> <<>>]

\* ValidRecords without the line df = df[~invalid_mask].
ValidRecordsUnfiltered(source, df, now) == df

\* df[~invalid_mask], or df itself.
ValidRecords(source, df, now) ==
    DataFrame(df.columns, SelectSeq(df.rows, LAMBDA r : ~InvalidMask(source, r, now)))

SilverEntry(source, df, now) ==
    LET valid   == ValidRecords(source, df, now)
        invalid == InvalidRecords(source, df, now)
    IN  [data |-> valid,
         invalid_records |-> invalid,
         metadata |-> [processing_time |-> now,
                       valid_records |-> Len(valid.rows),
                       invalid_records |-> Len(invalid.rows),
                       validation_rate |->
                           ValidationRate(Len(valid.rows), Len(df.rows))]]

SilverStepEntry(source, entry) ==
    [layer |-> "Silver", source |-> source,
     valid_records |-> entry.metadata.valid_records,
     invalid_records |-> entry.metadata.invalid_records]

\* The availability check of each view.
SalesMetricsSources == {"sales_orders", "order_items", "financial_transactions"}

\* InventoryStatusSources with a source the view does not read.
InventoryStatusSourcesWithCustomers == {"inventory_transactions", "products", "customers"}

InventoryStatusSources == {"inventory_transactions", "products"}

HasAll(layer, sources) == \A x \in sources : Has(layer, x)

\* GoldAfterSales joining the Bronze table of the sales orders.
GoldAfterSalesFromBronze(silver, gold) ==
    IF HasAll(silver, SalesMetricsSources)
    THEN Put(gold, "sales_metrics",
             SalesMetrics(Get(bronze_layer, "sales_orders").data,
                          Get(silver, "order_items").data))
    ELSE gold

\* gold_layer after the sales view's block.
GoldAfterSales(silver, gold) ==
    IF HasAll(silver, SalesMetricsSources)
    THEN Put(gold, "sales_metrics",
             SalesMetrics(Get(silver, "sales_orders").data, Get(silver, "order_items").data))
    ELSE gold

GoldSalesRaises(silver) ==
    /\ HasAll(silver, SalesMetricsSources)
    /\ SalesMetricsRaises(Get(silver, "sales_orders").data, Get(silver, "order_items").data)

\* gold_layer after the inventory view's block.
GoldAfterInventory(silver, gold) ==
    IF HasAll(silver, InventoryStatusSources)
    THEN Put(gold, "inventory_status",
             InventoryStatus(Get(silver, "inventory_transactions").data,
                             Get(silver, "products").data))
    ELSE gold

GoldInventoryRaises(silver) ==
    /\ HasAll(silver, InventoryStatusSources)
    /\ InventoryStatusRaises(Get(silver, "inventory_transactions").data,
                             Get(silver, "products").data)

GoldStepEntry(gold) == [layer |-> "Gold", views |-> Keys(gold)]

-----------------------------------------------------------------------------
(* run_pipeline and main *)

\* The DataPipeline object run_pipeline holds.
PipelineObject ==
    [bronze_layer |-> bronze_layer, silver_layer |-> silver_layer,
     gold_layer |-> gold_layer, processing_steps |-> processing_steps]

\* BronzeLoopDone one item early.
BronzeLoopDoneEarly == idx >= Len(data)

\* The for-loop over data.items() has no item left.
BronzeLoopDone == idx > Len(data)

\* The for-loop over bronze_layer.items() has no item left.
SilverLoopDone == idx > Len(bronze_layer)

\* What a completed run leaves to compare the next run with: the partitions
\* of each Silver source, the time they were made at, and the Gold views.
Outcome(p) ==
    [partitions |->
         [i \in 1..Len(p.silver_layer) |->
              [key |-> p.silver_layer[i].key,
               data |-> p.silver_layer[i].value.data,
               invalid_records |-> p.silver_layer[i].value.invalid_records,
               processing_time |-> p.silver_layer[i].value.metadata.processing_time]],
     gold_layer |-> p.gold_layer]

\* No BusinessDataGenerator has been constructed.
GeneratorIdle ==
    /\ gen_pc = "idle"
    /\ error_rate = 0
    /\ gen_products = <<>>
    /\ gen_customers = <<>>
    /\ gen_sales_orders = <<>>
    /\ gen_order_items = <<>>
    /\ gen_inventory_transactions = <<>>
    /\ gen_financial_transactions = <<>>
    /\ dataset = <<>>
    /\ gen_exc = <<>>

Init ==
    /\ data \in Inputs
    /\ clock = 1
    /\ pc = "idle"
    /\ idx = 1
    /\ bronze_layer = <<>>
    /\ silver_layer = <<>>
    /\ gold_layer = <<>>
    /\ processing_steps = <<>>
    /\ log = <<>>
    /\ handlers = 0
    /\ exc = <<>>
    /\ pipeline = <<>>
    /\ pipeline_running = FALSE
    /\ previous = <<>>
    /\ GeneratorIdle

\* run_pipeline is in one of its time.sleep calls: before a source of the
\* Bronze loop, before process_to_silver, before process_to_gold.
Sleeping ==
    \/ pc = "bronze"
    \/ pc = "silver" /\ SilverLoopDone

\* A day passes, while main waits for the button or run_pipeline sleeps.
Tick ==
    /\ pc = "idle" \/ Sleeping
    /\ clock < MaxClock
    /\ clock' = clock + 1
    /\ UNCHANGED <<data, pc, idx, bronze_layer, silver_layer, gold_layer,
                   processing_steps, log, handlers, exc, pipeline, pipeline_running>>
    /\ UNCHANGED <<previous, gen_vars>>

\* StartPipeline without the line logger.handlers = [].
StartPipelineAddingHandler ==
    /\ pc = "idle"
    /\ ~pipeline_running
    /\ pipeline_running' = TRUE
    /\ handlers' = handlers + 1
    /\ log' = <<>>
    /\ bronze_layer' = <<>>
    /\ silver_layer' = <<>>
    /\ gold_layer' = <<>>
    /\ processing_steps' = <<>>
    /\ pc' = "bronze"
    /\ idx' = 1
    /\ UNCHANGED <<data, clock, exc, pipeline>>
    /\ UNCHANGED <<previous, gen_vars>>

\* main: the button is pressed; run_pipeline up to its first loop: the
\* logger's handlers are replaced by a new one and a DataPipeline is built.
StartPipeline ==
    /\ pc = "idle"
    /\ ~pipeline_running
    /\ pipeline_running' = TRUE
    /\ handlers' = 1
    /\ log' = <<>>
    /\ bronze_layer' = <<>>
    /\ silver_layer' = <<>>
    /\ gold_layer' = <<>>
    /\ processing_steps' = <<>>
    /\ pc' = "bronze"
    /\ idx' = 1
    /\ UNCHANGED <<data, clock, exc, pipeline>>
    /\ UNCHANGED <<previous, gen_vars>>

\* One pass of run_pipeline's loop: process_to_bronze({source: df}).
ProcessToBronze ==
    /\ pc = "bronze"
    /\ ~BronzeLoopDone
    /\ LET source == data[idx].key
           df     == data[idx].value
           start  == LogEntry("INFO", "Starting Bronze Layer processing...", "")
       IN  IF BronzeRaises(df)
           THEN /\ log' = log \o <<start, LogEntry("ERROR", "Error processing to Bronze", source)>>
                /\ exc' = Raised("AttributeError", "Bronze", source)
                /\ pc' = "raised"
                /\ UNCHANGED <<idx, bronze_layer, processing_steps>>
           ELSE /\ bronze_layer' = Put(bronze_layer, source, BronzeEntry(source, df, clock))
                /\ log' = log \o <<start, LogEntry("INFO", "Loaded", source)>>
                /\ processing_steps' = Append(processing_steps, BronzeStepEntry(source, df))
                /\ idx' = idx + 1
                /\ UNCHANGED <<pc, exc>>
    /\ UNCHANGED <<data, clock, silver_layer, gold_layer, handlers, pipeline,
                   pipeline_running>>
    /\ UNCHANGED <<previous, gen_vars>>

\* run_pipeline leaves its loop and calls process_to_silver.
StartSilver ==
    /\ pc = "bronze"
    /\ BronzeLoopDone
    /\ pc' = "silver"
    /\ idx' = 1
    /\ log' = Append(log, LogEntry("INFO", "Starting Silver Layer processing...", ""))
    /\ UNCHANGED <<data, clock, bronze_layer, silver_layer, gold_layer,
                   processing_steps, handlers, exc, pipeline, pipeline_running>>
    /\ UNCHANGED <<previous, gen_vars>>

\* ProcessToSilver with an except block that logs and does not raise.
ProcessToSilverSwallows ==
    /\ pc = "silver"
    /\ idx <= Len(bronze_layer)
    /\ LET source == bronze_layer[idx].key
           df     == bronze_layer[idx].value.data
           error  == SilverException(source, df)
           entry  == SilverEntry(source, df, clock)
       IN  IF error # ""
           THEN /\ log' = Append(log, LogEntry("ERROR", "Error processing to Silver", source))
                /\ idx' = idx + 1
                /\ UNCHANGED <<silver_layer, processing_steps>>
           ELSE /\ silver_layer' = Put(silver_layer, source, entry)
                /\ log' = Append(log, LogEntry("INFO", "Processed to Silver Layer", source))
                /\ processing_steps' =
                       Append(processing_steps, SilverStepEntry(source, entry))
                /\ idx' = idx + 1
    /\ UNCHANGED <<data, clock, pc, exc, bronze_layer, gold_layer, handlers, pipeline,
                   pipeline_running>>
    /\ UNCHANGED <<previous, gen_vars>>

\* ProcessToSilver filtering bronze_data['data'] itself, without the copy.
ProcessToSilverInPlace ==
    /\ pc = "silver"
    /\ ~SilverLoopDone
    /\ LET source == bronze_layer[idx].key
           df     == bronze_layer[idx].value.data
           error  == SilverException(source, df)
           entry  == SilverEntry(source, df, clock)
       IN  IF error # ""
           THEN /\ log' = Append(log, LogEntry("ERROR", "Error processing to Silver", source))
                /\ exc' = Raised(error, "Silver", source)
                /\ pc' = "raised"
                /\ UNCHANGED <<idx, bronze_layer, silver_layer, processing_steps>>
           ELSE /\ silver_layer' = Put(silver_layer, source, entry)
                /\ bronze_layer' =
                       Put(bronze_layer, source,
                           [bronze_layer[idx].value EXCEPT !.data = entry.data])
                /\ log' = Append(log, LogEntry("INFO", "Processed to Silver Layer", source))
                /\ processing_steps' =
                       Append(processing_steps, SilverStepEntry(source, entry))
                /\ idx' = idx + 1
                /\ UNCHANGED <<pc, exc>>
    /\ UNCHANGED <<data, clock, gold_layer, handlers, pipeline, pipeline_running>>
    /\ UNCHANGED <<previous, gen_vars>>

\* One pass of process_to_silver's loop over bronze_layer.items().
ProcessToSilver ==
    /\ pc = "silver"
    /\ ~SilverLoopDone
    /\ LET source == bronze_layer[idx].key
           df     == bronze_layer[idx].value.data
           error  == SilverException(source, df)
           entry  == SilverEntry(source, df, clock)
       IN  IF error # ""
           THEN /\ log' = Append(log, LogEntry("ERROR", "Error processing to Silver", source))
                /\ exc' = Raised(error, "Silver", source)
                /\ pc' = "raised"
                /\ UNCHANGED <<idx, silver_layer, processing_steps>>
           ELSE /\ silver_layer' = Put(silver_layer, source, entry)
                /\ log' = Append(log, LogEntry("INFO", "Processed to Silver Layer", source))
                /\ processing_steps' =
                       Append(processing_steps, SilverStepEntry(source, entry))
                /\ idx' = idx + 1
                /\ UNCHANGED <<pc, exc>>
    /\ UNCHANGED <<data, clock, bronze_layer, gold_layer, handlers, pipeline,
                   pipeline_running>>
    /\ UNCHANGED <<previous, gen_vars>>

\* process_to_silver has returned; process_to_gold, whole.
ProcessToGold ==
    /\ pc = "silver"
    /\ SilverLoopDone
    /\ LET start == LogEntry("INFO", "Starting Gold Layer processing...", "")
           error == LogEntry("ERROR", "Error processing Gold Layer", "")
           sales == GoldAfterSales(silver_layer, gold_layer)
           gold  == GoldAfterInventory(silver_layer, sales)
       IN  IF GoldSalesRaises(silver_layer)
           THEN /\ log' = log \o <<start, error>>
                /\ exc' = Raised("KeyError", "Gold", "sales_metrics")
                /\ pc' = "raised"
                /\ UNCHANGED <<gold_layer, processing_steps>>
           ELSE IF GoldInventoryRaises(silver_layer)
           THEN /\ gold_layer' = sales
                /\ log' = log \o <<start, error>>
                /\ exc' = Raised("KeyError", "Gold", "inventory_status")
                /\ pc' = "raised"
                /\ UNCHANGED processing_steps
           ELSE /\ gold_layer' = gold
                /\ log' = log \o <<start, LogEntry("INFO", "Created Gold Layer views", "")>>
                /\ processing_steps' = Append(processing_steps, GoldStepEntry(gold))
                /\ pc' = "gold"
                /\ UNCHANGED exc
    /\ UNCHANGED <<data, clock, idx, bronze_layer, silver_layer, handlers, pipeline,
                   pipeline_running>>
    /\ UNCHANGED <<previous, gen_vars>>

\* run_pipeline returns the DataPipeline; main binds it to `pipeline`.
ReturnPipeline ==
    /\ pc = "gold"
    /\ pipeline' = <<PipelineObject>>
    /\ pc' = "display"
    /\ UNCHANGED <<data, clock, idx, bronze_layer, silver_layer, gold_layer,
                   processing_steps, log, handlers, exc, pipeline_running>>
    /\ UNCHANGED <<previous, gen_vars>>

\* display_pipeline_metrics indexes quality_df['Quelle'], a DataFrame built
\* from one record per silver source: with none it has no such column.
DisplayRaises(p) == p.silver_layer = <<>>

\* main after run_pipeline: the two display functions, then the flag is reset.
DisplayResults ==
    /\ pc = "display"
    /\ IF DisplayRaises(pipeline[1])
       THEN /\ exc' = Raised("KeyError", "Display", "")
            /\ pc' = "raised"
            /\ UNCHANGED pipeline_running
       ELSE /\ pipeline_running' = FALSE
            /\ pc' = "done"
            /\ UNCHANGED exc
    /\ UNCHANGED <<data, clock, idx, bronze_layer, silver_layer, gold_layer,
                   processing_steps, log, handlers, pipeline>>
    /\ UNCHANGED <<previous, gen_vars>>

\* The script is run again: main's locals are gone, the session state and
\* the logger stay.  With `compare`, what the run produced is kept to
\* compare the next run with.
Rerun(compare) ==
    /\ pc \in {"done", "raised"}
    /\ pc' = "idle"
    /\ pipeline' = <<>>
    /\ exc' = <<>>
    /\ UNCHANGED <<data, clock, idx, bronze_layer, silver_layer, gold_layer,
                   processing_steps, log, handlers, pipeline_running>>
    /\ previous' = IF compare /\ pc = "done" THEN <<Outcome(pipeline[1])>> ELSE previous
    /\ UNCHANGED gen_vars

Next ==
    \/ Tick
    \/ StartPipeline
    \/ ProcessToBronze
    \/ StartSilver
    \/ ProcessToSilver
    \/ ProcessToGold
    \/ ReturnPipeline
    \/ DisplayResults
    \/ Rerun(FALSE)

Spec == Init /\ [][Next]_vars

\* Runs that are compared with the run before them: of any set of sources,
\* or of one validated source with any rows.
InitTwice ==
    /\ Init
    /\ data \in {DictOf(present, "", None) : present \in SUBSET SourceSet} \cup InputsByRows

NextTwice ==
    \/ Tick
    \/ StartPipeline
    \/ ProcessToBronze
    \/ StartSilver
    \/ ProcessToSilver
    \/ ProcessToGold
    \/ ReturnPipeline
    \/ DisplayResults
    \/ Rerun(TRUE)

SpecTwice == InitTwice /\ [][NextTwice]_vars

\* A stage has raised and the page is opened in a new browser session: the
\* session state is new, the logger of the process stays.  What the run
\* raised is kept for the runs that follow.
NewSession ==
    /\ pc = "raised"
    /\ pc' = "idle"
    /\ pipeline_running' = FALSE
    /\ pipeline' = <<>>
    /\ exc' = <<>>
    /\ previous' = <<[raised |-> exc[1]]>>
    /\ UNCHANGED <<data, clock, idx, bronze_layer, silver_layer, gold_layer,
                   processing_steps, log, handlers>>
    /\ UNCHANGED gen_vars

NextSessions ==
    \/ Tick
    \/ StartPipeline
    \/ ProcessToBronze
    \/ StartSilver
    \/ ProcessToSilver
    \/ ProcessToGold
    \/ ReturnPipeline
    \/ DisplayResults
    \/ Rerun(FALSE)
    \/ NewSession

\* Runs in one session after another.
SpecSessions == Init /\ [][NextSessions]_vars

\* One run, at one time, of the tables a Gold view reads.
InitGold ==
    /\ data \in InputsForGold
    /\ clock = 1
    /\ pc = "idle"
    /\ idx = 1
    /\ bronze_layer = <<>>
    /\ silver_layer = <<>>
    /\ gold_layer = <<>>
    /\ processing_steps = <<>>
    /\ log = <<>>
    /\ handlers = 0
    /\ exc = <<>>
    /\ pipeline = <<>>
    /\ pipeline_running = FALSE
    /\ previous = <<>>
    /\ GeneratorIdle

RunOnce ==
    \/ StartPipeline
    \/ ProcessToBronze
    \/ StartSilver
    \/ ProcessToSilver
    \/ ProcessToGold
    \/ ReturnPipeline
    \/ DisplayResults

SpecGold == InitGold /\ [][RunOnce]_vars

-----------------------------------------------------------------------------
(* What the log and the metrics of a run show *)

Logged(msg) == \E i \in 1..Len(log) : log[i].msg = msg

TimesLogged(msg) == Cardinality({i \in 1..Len(log) : log[i].msg = msg})

ErrorLogged(msg) == \E i \in 1..Len(log) : log[i].level = "ERROR" /\ log[i].msg = msg

\* The stage a log line belongs to.
StageOfLine(entry) ==
    CASE entry.msg \in {"Starting Bronze Layer processing...", "Loaded",
                        "Error processing to Bronze"} -> 1
      [] entry.msg \in {"Starting Silver Layer processing...",
                        "Processed to Silver Layer", "Error processing to Silver"} -> 2
      [] OTHER -> 3

\* Occurrences of a row in a sequence of rows.
Count(rows, r) == Cardinality({i \in 1..Len(rows) : rows[i] = r})

-----------------------------------------------------------------------------
(* C1 *)

\* C1: in every run the stages execute in the order Bronze, Silver, Gold, each
\* entered once: the log never goes back to an earlier stage, process_to_silver
\* starts only when every input source has a Bronze entry, process_to_gold
\* starts only when process_to_silver has returned (every Bronze source has its
\* Silver entry), and the run is completed only when process_to_gold has
\* returned.
C1_StagesInOrder ==
    /\ \A i, j \in 1..Len(log) : i < j => StageOfLine(log[i]) <= StageOfLine(log[j])
    /\ TimesLogged("Starting Silver Layer processing...") <= 1
    /\ TimesLogged("Starting Gold Layer processing...") <= 1
    /\ Logged("Starting Silver Layer processing...")
          => KeySet(bronze_layer) = KeySet(data)
    /\ Logged("Starting Gold Layer processing...")
          => /\ KeySet(silver_layer) = KeySet(bronze_layer)
             /\ TimesLogged("Processed to Silver Layer") = Len(bronze_layer)
    /\ (pc \in {"gold", "display", "done"} \/ pipeline # <<>>)
          => /\ Logged("Created Gold Layer views")
             /\ processing_steps # <<>>
             /\ processing_steps[Len(processing_steps)].layer = "Gold"

\* A run over all six sources has completed with both views.
C1_Witness ==
    /\ pc = "done"
    /\ Len(data) = Len(Sources)
    /\ Keys(gold_layer) = <<"sales_metrics", "inventory_status">>

-----------------------------------------------------------------------------
(* C2 *)

\* C2: when a stage raises, no later stage is executed and the exception
\* leaves run_pipeline (nothing is returned to the caller): after a failure in
\* Bronze the Silver and Gold layers are empty and Silver was not started,
\* after a failure in Silver the Gold layer is empty and Gold was not started.
C2_FailureAbortsRun ==
    /\ ErrorLogged("Error processing to Bronze")
          => /\ silver_layer = <<>> /\ gold_layer = <<>>
             /\ ~Logged("Starting Silver Layer processing...")
             /\ ~Logged("Starting Gold Layer processing...")
    /\ ErrorLogged("Error processing to Silver")
          => /\ gold_layer = <<>>
             /\ ~Logged("Starting Gold Layer processing...")
    /\ ErrorLogged("Error processing Gold Layer")
          => ~Logged("Created Gold Layer views")
    /\ (pc # "idle" /\ \E i \in 1..Len(log) : log[i].level = "ERROR")
          => pc = "raised" /\ exc # <<>> /\ pipeline = <<>>

\* Silver has raised on some source after it had processed another one.
C2_Witness ==
    /\ pc = "raised"
    /\ exc # <<>> /\ exc[1].layer = "Silver"
    /\ silver_layer # <<>>
    /\ Len(bronze_layer) > Len(silver_layer) + 1

-----------------------------------------------------------------------------
(* C3 *)

\* C3: when a stage raises during run_pipeline, the results of the stages that
\* had completed remain available to the caller: the caller holds the
\* DataPipeline with its Bronze tables (and Silver tables).
C3_PartialResultsAvailable ==
    (pc = "raised" /\ exc[1].layer \in {"Silver", "Gold"})
        => /\ pipeline # <<>>
           /\ pipeline[1].bronze_layer = bronze_layer
           /\ pipeline[1].silver_layer = silver_layer

-----------------------------------------------------------------------------
(* C4 *)

\* The rows of a source in Bronze, its valid and its invalid rows in Silver.
BronzeRows(source) == Get(bronze_layer, source).data.rows

ValidRows(source) == Get(silver_layer, source).data.rows

InvalidRows(source) == Get(silver_layer, source).invalid_records.rows

\* C4: Silver puts a sales order in the invalid partition, and not in the
\* valid one, if its order_date is missing, its customer_id is missing or its
\* order_date is later than the processing time, and in the valid partition,
\* and not in the invalid one, otherwise.
C4_SalesOrdersInvalidIff ==
    Has(silver_layer, "sales_orders") =>
        \A r \in Range(BronzeRows("sales_orders")) :
            LET t   == Get(silver_layer, "sales_orders").metadata.processing_time
                bad == \/ r.order_date = <<>>
                       \/ r.customer_id = <<>>
                       \/ (r.order_date # <<>> /\ r.order_date[1] > t)
            IN  /\ bad <=> r \in Range(InvalidRows("sales_orders"))
                /\ ~bad <=> r \in Range(ValidRows("sales_orders"))

\* An order of a later day than the processing time, with a customer, was
\* rejected, and an order of the processing day was accepted beside it.
C4_Witness ==
    /\ Has(silver_layer, "sales_orders")
    /\ \E r \in Range(InvalidRows("sales_orders")) :
          /\ r.customer_id # <<>> /\ r.order_date # <<>>
          /\ r.order_date[1] > Get(silver_layer, "sales_orders").metadata.processing_time
    /\ \E r \in Range(ValidRows("sales_orders")) :
          r.order_date[1] = Get(silver_layer, "sales_orders").metadata.processing_time

-----------------------------------------------------------------------------
(* C5 *)

\* C5: Silver puts a financial transaction in the invalid partition, and not
\* in the valid one, if payment_date < invoice_date, its amount is missing or
\* its amount is <= 0 (so with amount -5 and with amount 0), and in the valid
\* partition, and not in the invalid one, otherwise.
C5_FinancialInvalidIff ==
    Has(silver_layer, "financial_transactions") =>
        \A r \in Range(BronzeRows("financial_transactions")) :
            LET bad == \/ (r.payment_date # <<>> /\ r.invoice_date # <<>>
                              /\ r.payment_date[1] < r.invoice_date[1])
                       \/ r.amount = <<>>
                       \/ (r.amount # <<>> /\ r.amount[1] <= 0)
            IN  /\ bad <=> r \in Range(InvalidRows("financial_transactions"))
                /\ ~bad <=> r \in Range(ValidRows("financial_transactions"))

\* A transaction of amount 0 and one of amount -5, both paid on the invoice
\* day, were rejected.
C5_Witness ==
    /\ Has(silver_layer, "financial_transactions")
    /\ \E r \in Range(InvalidRows("financial_transactions")) :
          r.amount = <<0>> /\ r.payment_date = r.invoice_date
    /\ \E r \in Range(InvalidRows("financial_transactions")) :
          r.amount = <<-5>> /\ r.payment_date = r.invoice_date

-----------------------------------------------------------------------------
(* C6 *)

\* C6: for every source Silver has processed, no row is both valid and
\* invalid, every Bronze row occurs in the two partitions together as often as
\* in Bronze and no other row does, and valid_records + invalid_records is the
\* Bronze record_count; when process_to_silver has returned, it has processed
\* every Bronze source.
C6_SilverPartitionsBronze ==
    /\ \A s \in KeySet(silver_layer) :
          /\ Has(bronze_layer, s)
          /\ Range(ValidRows(s)) \cap Range(InvalidRows(s)) = {}
          /\ Range(ValidRows(s)) \cup Range(InvalidRows(s)) = Range(BronzeRows(s))
          /\ \A r \in Range(BronzeRows(s)) :
                Count(ValidRows(s), r) + Count(InvalidRows(s), r) = Count(BronzeRows(s), r)
          /\ Get(silver_layer, s).metadata.valid_records = Len(ValidRows(s))
          /\ Get(silver_layer, s).metadata.invalid_records = Len(InvalidRows(s))
          /\ Get(silver_layer, s).metadata.valid_records
                + Get(silver_layer, s).metadata.invalid_records
                = Get(bronze_layer, s).metadata.record_count
    /\ Logged("Starting Gold Layer processing...")
          => KeySet(silver_layer) = KeySet(bronze_layer)

\* A source of two rows was split into one valid and one invalid row.
C6_Witness ==
    \E s \in KeySet(silver_layer) :
        /\ Len(BronzeRows(s)) = 2
        /\ Len(ValidRows(s)) = 1
        /\ Len(InvalidRows(s)) = 1

-----------------------------------------------------------------------------
(* C7 *)

\* C7: for every source with at least one Bronze row, the validation_rate
\* Silver records is 100 * valid_count / bronze_count and lies in [0, 100].
C7_ValidationRate ==
    \A s \in KeySet(silver_layer) :
        LET rate   == Get(silver_layer, s).metadata.validation_rate
            valid  == Len(ValidRows(s))
            bronze == Get(bronze_layer, s).metadata.record_count
        IN  bronze > 0 =>
               /\ rate.den > 0
               /\ rate.num * bronze = 100 * valid * rate.den
               /\ 0 <= rate.num
               /\ rate.num <= 100 * rate.den

\* A rate strictly between 0 and 100 was recorded.
C7_Witness ==
    \E s \in KeySet(silver_layer) :
        LET rate == Get(silver_layer, s).metadata.validation_rate
        IN  0 < rate.num /\ rate.num < 100 * rate.den

-----------------------------------------------------------------------------
(* C8 *)

\* C8: when a source has zero Bronze rows, process_to_silver does not raise
\* on it, and when process_to_silver is over the source has a Silver entry
\* with 0 valid and 0 invalid rows.
C8_EmptySourceHandled ==
    \A s \in KeySet(bronze_layer) :
        Get(bronze_layer, s).metadata.record_count = 0
            => /\ ~(pc = "raised" /\ exc[1].layer = "Silver" /\ exc[1].source = s)
               /\ Logged("Starting Gold Layer processing...")
                     => /\ Has(silver_layer, s)
                        /\ Get(silver_layer, s).metadata.valid_records = 0
                        /\ Get(silver_layer, s).metadata.invalid_records = 0

-----------------------------------------------------------------------------
(* C9 *)

Validated == {"sales_orders", "financial_transactions"}

\* C9: for every source other than sales_orders and financial_transactions
\* that Silver has processed, the invalid partition is empty, the valid rows
\* are the Bronze rows, valid_records is the Bronze record_count and the
\* validation_rate is 100; when process_to_silver has returned, it has
\* processed every such source of Bronze.
C9_OtherSourcesPassThrough ==
    /\ \A s \in KeySet(silver_layer) \ Validated :
          LET meta == Get(silver_layer, s).metadata
          IN  /\ InvalidRows(s) = <<>>
              /\ meta.invalid_records = 0
              /\ ValidRows(s) = BronzeRows(s)
              /\ meta.valid_records = Get(bronze_layer, s).metadata.record_count
              /\ meta.validation_rate.den > 0
              /\ meta.validation_rate.num = 100 * meta.validation_rate.den
    /\ Logged("Starting Gold Layer processing...")
          => KeySet(bronze_layer) \ Validated \subseteq KeySet(silver_layer)

\* Silver has returned with the four other sources in it, one of them with a
\* row whose key is missing.
C9_Witness ==
    /\ Logged("Starting Gold Layer processing...")
    /\ SourceSet \ Validated \subseteq KeySet(silver_layer)
    /\ \E r \in Range(ValidRows("inventory_transactions")) : r.product_id = <<>>

-----------------------------------------------------------------------------
(* C10 *)

\* C10: Bronze holds one entry for each input table ingested so far, in input
\* order and under the table's name, whose data is the input table (the same
\* rows and columns), whose record_count is the number of input rows, whose
\* column list is the input's and whose source name is the table's name; when
\* Silver starts, every input table has its entry.
C10_BronzePassThrough ==
    /\ Len(bronze_layer) <= Len(data)
    /\ \A i \in 1..Len(bronze_layer) :
          LET entry == bronze_layer[i].value
              df    == data[i].value
          IN  /\ bronze_layer[i].key = data[i].key
              /\ entry.data.rows = df.rows
              /\ entry.data.columns = df.columns
              /\ entry.metadata.record_count = Len(df.rows)
              /\ entry.metadata.columns = df.columns
              /\ entry.metadata.source_system = data[i].key
    /\ Logged("Starting Silver Layer processing...") => Len(bronze_layer) = Len(data)

\* All six tables are in Bronze, among them one with rows Silver will reject.
C10_Witness ==
    /\ Logged("Starting Silver Layer processing...")
    /\ Len(bronze_layer) = Len(Sources)
    /\ \E r \in Range(BronzeRows("sales_orders")) : r.customer_id = <<>>

-----------------------------------------------------------------------------
(* C11: no stage changes what it reads *)

\* The run has passed Gold.
GoldDone == pc \in {"gold", "display", "done"}

\* C11: no step of a run changes the raw input tables; no pass of Silver and
\* no Gold changes the Bronze layer, Gold does not change the Silver layer;
\* so after Gold the Bronze data of every source is still the raw table,
\* with the rows Silver rejected, and `pipeline` holds the layers as they are.
C11_StagesLeaveInputsAlone ==
    /\ [][/\ data' = data
          /\ pc = "silver" => bronze_layer' = bronze_layer
          /\ pc = "silver" /\ SilverLoopDone => silver_layer' = silver_layer]_vars
    /\ [](GoldDone =>
            /\ Len(bronze_layer) = Len(data)
            /\ \A i \in 1..Len(data) :
                   /\ bronze_layer[i].key = data[i].key
                   /\ bronze_layer[i].value.data = data[i].value
            /\ \A i \in 1..Len(silver_layer) :
                   LET bronze == Get(bronze_layer, silver_layer[i].key).data.rows
                   IN  \A r \in Range(silver_layer[i].value.invalid_records.rows) :
                           r \in Range(bronze)
            /\ pipeline # <<>> =>
                   /\ pipeline[1].bronze_layer = bronze_layer
                   /\ pipeline[1].silver_layer = silver_layer)

\* A run is over: Silver rejected a row, Gold built a view.
C11_Witness ==
    /\ pc = "done"
    /\ gold_layer # <<>>
    /\ \E i \in 1..Len(silver_layer) :
           /\ silver_layer[i].value.invalid_records.rows # <<>>
           /\ Get(bronze_layer, silver_layer[i].key).data.rows
                  # silver_layer[i].value.data.rows

-----------------------------------------------------------------------------
(* C12: two runs on the same input *)

\* A second run on the same input is over; the run before it completed too.
SecondRunDone == pc = "done" /\ previous # <<>>

\* The partitions of a source in an Outcome, <<>> when Silver has none.
PartitionsOf(outcome, source) ==
    LET found == SelectSeq(outcome.partitions, LAMBDA e : e.key = source)
    IN  IF found = <<>> THEN <<>>
        ELSE <<[data |-> found[1].data, invalid_records |-> found[1].invalid_records]>>

\* The view of that name in an Outcome, <<>> when Gold has none.
ViewOf(outcome, view) ==
    IF Has(outcome.gold_layer, view) THEN <<Get(outcome.gold_layer, view)>> ELSE <<>>

\* The two runs' processing times of a source, earlier first.
ProcessingTimes(source) ==
    LET time(o) == SelectSeq(o.partitions, LAMBDA e : e.key = source)[1].processing_time
    IN  <<time(previous[1]), time(Outcome(pipeline[1]))>>

\* An order of the raw sales_orders table is dated after the first run's
\* processing time and not after the second's.
OrderCameDue ==
    /\ Has(silver_layer, "sales_orders")
    /\ \E r \in Range(Get(bronze_layer, "sales_orders").data.rows) :
           /\ Gt(r.order_date, Some(ProcessingTimes("sales_orders")[1]))
           /\ Le(r.order_date, Some(ProcessingTimes("sales_orders")[2]))

\* C12 as stated: two runs of Bronze, Silver and Gold on the same input, at
\* any two processing times, end with the same valid and invalid partitions
\* of every source and the same Gold views.
C12_RunsAgree ==
    SecondRunDone =>
        /\ \A s \in SourceSet :
               PartitionsOf(previous[1], s) = PartitionsOf(Outcome(pipeline[1]), s)
        /\ previous[1].gold_layer = pipeline[1].gold_layer

\* C12, amended: two runs on the same input, at any two processing times,
\* end with the same partitions of every source but sales_orders and the
\* same inventory_status; the partitions of sales_orders and sales_metrics
\* are the same too unless an order date lies after the first processing
\* time and not after the second.
C12_RunsAgreeUnlessOrderCameDue ==
    SecondRunDone =>
        /\ \A s \in SourceSet \ {"sales_orders"} :
               PartitionsOf(previous[1], s) = PartitionsOf(Outcome(pipeline[1]), s)
        /\ ViewOf(previous[1], "inventory_status")
               = ViewOf(Outcome(pipeline[1]), "inventory_status")
        /\ Keys(previous[1].gold_layer) = Keys(pipeline[1].gold_layer)
        /\ ~OrderCameDue =>
               /\ PartitionsOf(previous[1], "sales_orders")
                      = PartitionsOf(Outcome(pipeline[1]), "sales_orders")
               /\ previous[1].gold_layer = pipeline[1].gold_layer

\* Two completed runs of all six sources at different processing times, with
\* rejected rows and both views.
C12_Witness ==
    /\ SecondRunDone
    /\ HasAll(silver_layer, SourceSet)
    /\ ProcessingTimes("sales_orders")[1] < ProcessingTimes("sales_orders")[2]
    /\ ~OrderCameDue
    /\ Get(silver_layer, "sales_orders").invalid_records.rows # <<>>
    /\ Get(silver_layer, "financial_transactions").invalid_records.rows # <<>>
    /\ Has(gold_layer, "sales_metrics")
    /\ Has(gold_layer, "inventory_status")

-----------------------------------------------------------------------------
(* C13: when sales_metrics is computed *)

\* C13: once Gold has completed, sales_metrics is in the Gold layer exactly
\* when Silver holds the two sources it joins, sales_orders and order_items,
\* whatever other sources are there.
C13_SalesMetricsIffJoinedSources ==
    GoldDone =>
        (Has(gold_layer, "sales_metrics")
            <=> Has(silver_layer, "sales_orders") /\ Has(silver_layer, "order_items"))

-----------------------------------------------------------------------------
(* C14: a view whose prerequisite is missing *)

\* C14: a view whose availability check fails is skipped without an error:
\* process_to_gold raises only out of a view whose checked sources are all
\* in Silver; once Gold has completed, inventory_status is there exactly
\* when Silver holds inventory_transactions and products, and sales_metrics
\* exactly when Silver holds the three sources its check names, each view
\* whatever becomes of the other.
C14_MissingPrerequisiteSkipsView ==
    /\ exc # <<>> /\ exc[1].layer = "Gold" =>
           IF exc[1].source = "inventory_status"
           THEN /\ Has(silver_layer, "inventory_transactions")
                /\ Has(silver_layer, "products")
           ELSE /\ Has(silver_layer, "sales_orders")
                /\ Has(silver_layer, "order_items")
                /\ Has(silver_layer, "financial_transactions")
    /\ GoldDone =>
           /\ Has(gold_layer, "inventory_status")
                  <=> /\ Has(silver_layer, "inventory_transactions")
                      /\ Has(silver_layer, "products")
           /\ Has(gold_layer, "sales_metrics")
                  <=> /\ Has(silver_layer, "sales_orders")
                      /\ Has(silver_layer, "order_items")
                      /\ Has(silver_layer, "financial_transactions")

\* Gold has completed without products: sales_metrics alone was built.
C14_Witness ==
    /\ GoldDone
    /\ Has(silver_layer, "inventory_transactions")
    /\ ~Has(silver_layer, "products")
    /\ Has(gold_layer, "sales_metrics")
    /\ ~Has(gold_layer, "inventory_status")

-----------------------------------------------------------------------------
(* C15: the total of sales_metrics *)

\* The rows of a Silver source that passed validation.
SilverRows(source) == Get(silver_layer, source).data.rows

\* No two rows of the table have the same cell in the column.
IsKey(rows, c) == \A i, j \in 1..Len(rows) : rows[i][c] = rows[j][c] => i = j

\* The Silver order items of the valid Silver sales orders.
ItemsOfValidOrders ==
    SelectSeq(SilverRows("order_items"),
              LAMBDA item : \E o \in Range(SilverRows("sales_orders")) :
                                o.order_id = item.order_id)

\* C15: when the order ids of the valid sales orders are unique, total_sales
\* summed over the departments of sales_metrics is the sum of line_total over
\* the Silver order items whose order is a valid Silver sales order: the
\* items of rejected orders add nothing, a valid order without items adds 0.
C15_TotalSalesIsSumOfValidItems ==
    GoldDone /\ Has(gold_layer, "sales_metrics")
             /\ IsKey(SilverRows("sales_orders"), "order_id") =>
        SumCells(Column(Get(gold_layer, "sales_metrics").rows, "total_sales"))
            = SumCells(Column(ItemsOfValidOrders, "line_total"))

\* sales_metrics was built from a valid order with an item and a rejected
\* order with an item.
C15_Witness ==
    /\ GoldDone
    /\ Has(gold_layer, "sales_metrics")
    /\ IsKey(SilverRows("sales_orders"), "order_id")
    /\ Len(ItemsOfValidOrders) = 1
    /\ \E o \in Range(Get(silver_layer, "sales_orders").invalid_records.rows) :
           \E item \in Range(SilverRows("order_items")) : item.order_id = o.order_id

-----------------------------------------------------------------------------
(* C16: the rows of inventory_status *)

\* The product ids of the Silver inventory transactions that have one.
MovedProducts ==
    {r.product_id : r \in Range(SilverRows("inventory_transactions"))} \ {NaN}

\* The Silver inventory transactions of a product.
MovesOf(id) ==
    SelectSeq(SilverRows("inventory_transactions"), LAMBDA r : r.product_id = id)

\* The rows of the product master with that id.
MasterRowsOf(id) == SelectSeq(SilverRows("products"), LAMBDA m : m.product_id = id)

\* The row of inventory_status is the row of the product `id`: its net
\* quantity, its last transaction date, the name and category of the master.
IsStatusRowOf(row, id) ==
    /\ row.product_id = id
    /\ row.quantity = Some(SumCells(Column(MovesOf(id), "quantity")))
    /\ row.transaction_date = MaxCells(Column(MovesOf(id), "transaction_date"))
    /\ IF MasterRowsOf(id) = <<>>
       THEN IsNa(row.name) /\ IsNa(row.category)
       ELSE \E m \in Range(MasterRowsOf(id)) :
               row.name = m.name /\ row.category = m.category

\* inventory_status has one row for each product moved, with the values of
\* that product, and no other row.
OneStatusRowPerProduct ==
    LET status == Get(gold_layer, "inventory_status").rows
    IN  /\ \A id \in MovedProducts :
               Cardinality({i \in 1..Len(status) : status[i].product_id = id}) = 1
        /\ \A i \in 1..Len(status) :
               /\ status[i].product_id \in MovedProducts
               /\ IsStatusRowOf(status[i], status[i].product_id)

\* C16 as stated: inventory_status has exactly one row for each distinct
\* product_id of the Silver inventory transactions, with the sum of its
\* quantities, its latest transaction date and the name and category of the
\* product master (missing when the product is not in it); a transaction
\* without product_id adds to no row.
C16_OneRowPerProduct ==
    GoldDone /\ Has(gold_layer, "inventory_status") => OneStatusRowPerProduct

\* C16, amended: the same, when no two rows of the product master have the
\* same product_id.
C16_OneRowPerProductOfUniqueMaster ==
    GoldDone /\ Has(gold_layer, "inventory_status")
             /\ IsKey(SilverRows("products"), "product_id") => OneStatusRowPerProduct

\* inventory_status was built over a master without duplicates, from the
\* movements of a product it holds and of a product it lacks.
C16_Witness ==
    /\ GoldDone
    /\ Has(gold_layer, "inventory_status")
    /\ IsKey(SilverRows("products"), "product_id")
    /\ SilverRows("products") # <<>>
    /\ \E id \in MovedProducts : MasterRowsOf(id) = <<>>
    /\ \E id \in MovedProducts : MasterRowsOf(id) # <<>>

-----------------------------------------------------------------------------
(* BusinessDataGenerator (demo3/data/generator.py) *)
(*                                                                         *)
(* A generated table is the sequence of its rows; the table of no rows has *)
(* no columns (pd.DataFrame([])).  Money is in cents, a date is a day      *)
(* number; a discount, the noise of an amount and a split ratio are in     *)
(* percent, the noise of a price is in 1/1000.  An id is its prefix and a  *)
(* number: the uuid prefixes of a run are taken distinct.                  *)
(* random.random() < p can come out either way when 0 < p < 1.             *)

\* Rows of self.products (num_products).
MaxProducts == 2

\* Rows of self.customers (num_customers).
MaxCustomers == 1

\* Rows of sales_orders (num_orders).
MaxOrders == 1

\* Rows of inventory_transactions (num_transactions).
MaxInventory == 1

\* items_per_order = (1, 5): the most items random.randint draws.
ItemsPerOrderMax == 5

\* The error rates a generator is constructed with, in percent.
ErrorRates == {0, 15, 100}

Id(prefix, n) == Some(<<prefix, n>>)

\* Chance with <= for <: random.random() <= 0 can come out true.
ChanceOrEqual(rate, tenths) ==
    IF rate * tenths >= 1000 THEN {TRUE} ELSE BOOLEAN

\* The outcomes of random.random() < error_rate * tenths / 10.
Chance(rate, tenths) ==
    IF rate * tenths <= 0 THEN {FALSE}
    ELSE IF rate * tenths >= 1000 THEN {TRUE}
    ELSE BOOLEAN

\* round(n / d) to the nearest integer, a tie to the even one.
RoundHalfEven(n, d) ==
    LET q == n \div d
        r == n % d
    IN  IF 2 * r < d THEN q
        ELSE IF 2 * r > d THEN q + 1
        ELSE IF q % 2 = 0 THEN q ELSE q + 1

RECURSIVE Gcd(_, _)
Gcd(a, b) == IF b = 0 THEN a ELSE Gcd(b, a % b)

\* round(n * num / den), the fraction num / den in lowest terms.
RoundRatio(n, num, den) ==
    RoundHalfEven(n * (num \div Gcd(num, den)), den \div Gcd(num, den))

RECURSIVE ConcatAll(_)
\* The concatenations of one sequence out of each set, in order.
ConcatAll(sets) ==
    IF sets = <<>> THEN {<<>>}
    ELSE {a \o b : a \in Head(sets), b \in ConcatAll(Tail(sets))}

\* Samples drawing with replacement.
SamplesWithReplacement(table, n) ==
    {[i \in 1..n |-> table[f[i]]] : f \in [1..n -> 1..Len(table)]}

\* DataFrame.sample(n): n distinct rows, in any order.
Samples(table, n) ==
    {[i \in 1..n |-> table[f[i]]] :
        f \in {g \in [1..n -> 1..Len(table)] : \A i, j \in 1..n : g[i] = g[j] => i = j}}

\* The values the random draws of a run are taken from, each a part of the
\* range the code draws from.
Draws ==
    [unit_price   |-> {1240},
     department   |-> {"IT"},
     date         |-> {10},
     quantity     |-> {10},
     discount     |-> {0, 5},
     price_noise  |-> {1},
     inbound      |-> {10},
     outbound     |-> {-20},
     correction   |-> {-5},
     returned     |-> {5},
     shift        |-> {1, 5},
     delay        |-> {0, 5},
     amount_noise |-> {-5},
     split_ratio  |-> {30},
     split_gap    |-> {1}]

PaymentTerms == {"Net30", "Net60", "Immediate", "Net45"}

TransactionTypes == {"Eingang", "Ausgang", "Bestandskorrektur", "Retoure"}

\* TermDays with 3 days for Net30.
TermDaysShortNet30(payment_terms) ==
    CASE payment_terms = "Net30" -> 3
      [] payment_terms = "Net45" -> 45
      [] payment_terms = "Net60" -> 60
      [] payment_terms = "Immediate" -> 0

\* The days of a payment term.
TermDays(payment_terms) ==
    CASE payment_terms = "Net30" -> 30
      [] payment_terms = "Net45" -> 45
      [] payment_terms = "Net60" -> 60
      [] payment_terms = "Immediate" -> 0

\* _generate_product_master_data: the tables it can return.
ProductTables(d) ==
    {[i \in 1..MaxProducts |-> [product_id |-> Id("P", i), unit_price |-> Some(price[i])]] :
        price \in [1..MaxProducts -> d.unit_price]}

\* _generate_customer_master_data: the tables it can return.
CustomerTables(d) ==
    {[i \in 1..MaxCustomers |->
         [customer_id |-> Id("C", i), payment_terms |-> Some(c[i][1]),
          department |-> Some(c[i][2])]] :
        c \in [1..MaxCustomers -> PaymentTerms \X d.department]}

\* generate_sales_orders(num_orders) of a generator with these customers and
\* this error rate: the tables it can return.
SalesOrdersOf(num_orders, customers, rate, d) ==
    {[i \in 1..num_orders |->
         [order_id |-> Id("SO", i),
          customer_id |-> IF o[i][2] THEN NaN ELSE o[i][1].customer_id,
          order_date |-> Some(o[i][3]),
          payment_terms |-> o[i][1].payment_terms,
          department |-> o[i][1].department]] :
        o \in [1..num_orders -> Range(customers) \X Chance(rate, 5) \X d.date]}

\* generate_sales_orders: the tables it can return.
SalesOrderTables(d) == SalesOrdersOf(MaxOrders, gen_customers, error_rate, d)

\* customers.sample(1) of no customer.
SalesOrdersRaise == MaxOrders > 0 /\ gen_customers = <<>>

\* The item of a product in an order; noise is 0 when no noise is applied.
\* unit_price is rounded for the row, line_total is computed from the price
\* that is not.
ItemRow(order, product, quantity, discount, noise) ==
    [order_id |-> order.order_id,
     product_id |-> product.product_id,
     quantity |-> Some(quantity),
     unit_price |-> Some(RoundHalfEven(product.unit_price[1] * (1000 + noise), 1000)),
     discount |-> Some(discount),
     line_total |-> Some(RoundRatio(quantity * product.unit_price[1],
                                    (1000 + noise) * (100 - discount), 100000))]

\* The noise factors of an item: none, or any when the price deviates.
NoiseOptions(d) ==
    (IF FALSE \in Chance(error_rate, 10) THEN {0} ELSE {})
    \cup (IF TRUE \in Chance(error_rate, 10) THEN d.price_noise ELSE {})

\* One pass of the inner loop: the item is left out, or appended.
ItemOptions(order, product, d) ==
    (IF TRUE \in Chance(error_rate, 1) THEN {<<>>} ELSE {})
    \cup {<<ItemRow(order, product, q, disc, u)>> :
            q \in d.quantity, disc \in d.discount, u \in NoiseOptions(d)}

\* The numbers of items random.randint(1, 5) can draw that products.sample
\* can deliver.
ItemCounts(master) ==
    {n \in 1..ItemsPerOrderMax : n <= Len(master)}

\* One pass of the outer loop: the order is left out, or gets the items of a
\* sample of the products.
ItemsOfOrder(order, master, d) ==
    (IF TRUE \in Chance(error_rate, 3) THEN {<<>>} ELSE {})
    \cup UNION {UNION {ConcatAll([i \in 1..n |-> ItemOptions(order, sel[i], d)]) :
                         sel \in Samples(master, n)} :
                  n \in ItemCounts(master)}

\* generate_order_items(sales_orders): the tables it can return.
OrderItemTables(orders, master, d) ==
    ConcatAll([i \in 1..Len(orders) |-> ItemsOfOrder(orders[i], master, d)])

\* products.sample(num_items) of more items than there are products.
OrderItemsRaise(orders, master) ==
    orders # <<>> /\ Len(master) < ItemsPerOrderMax

\* random.randint of the range of a transaction type.
InventoryQuantities(type, d) ==
    CASE type = "Eingang" -> d.inbound
      [] type = "Ausgang" -> d.outbound
      [] type = "Bestandskorrektur" -> d.correction
      [] type = "Retoure" -> d.returned

\* generate_inventory_transactions: the tables it can return.
InventoryTables(d) ==
    LET draws == UNION {Range(gen_products) \X {ty} \X Chance(error_rate, 10)
                            \X InventoryQuantities(ty, d) \X d.date :
                        ty \in TransactionTypes}
    IN  {[i \in 1..MaxInventory |->
             [transaction_id |-> Id("T", i),
              product_id |-> IF x[i][3] THEN NaN ELSE x[i][1].product_id,
              transaction_type |-> Some(x[i][2]),
              quantity |-> Some(x[i][4]),
              transaction_date |-> Some(x[i][5])]] :
            x \in [1..MaxInventory -> draws]}

\* products.sample(1) of no product.
InventoryRaises == MaxInventory > 0 /\ gen_products = <<>>

\* sales_orders.merge(order_totals, on='order_id', how='left'): each order
\* with the sum of the line totals of its items, missing when it has none.
OrdersWithTotals(orders, items) ==
    [i \in 1..Len(orders) |->
        LET own == SelectSeq(items, LAMBDA it : it.order_id = orders[i].order_id)
        IN  [order |-> orders[i],
             line_total |-> IF own = <<>> THEN NaN
                            ELSE Some(SumCells(Column(own, "line_total")))]]

\* FinancialRow with the customer's id for the order's.
FinancialRowOfCustomer(order, invoice_date, due_date, amount, payment_date) ==
    [transaction_id |-> NaN,
     order_id |-> order.customer_id,
     customer_id |-> order.customer_id,
     invoice_date |-> Some(invoice_date),
     due_date |-> Some(due_date),
     amount |-> IF IsNa(amount) THEN NaN ELSE Some(RoundHalfEven(amount[1], 10000)),
     payment_date |-> Some(payment_date)]

\* FinancialRow with a missing total filled with 0 (fillna(0)).
FinancialRowZeroForMissing(order, invoice_date, due_date, amount, payment_date) ==
    [transaction_id |-> NaN,
     order_id |-> order.order_id,
     customer_id |-> order.customer_id,
     invoice_date |-> Some(invoice_date),
     due_date |-> Some(due_date),
     amount |-> IF IsNa(amount) THEN Some(0) ELSE Some(RoundHalfEven(amount[1], 10000)),
     payment_date |-> Some(payment_date)]

\* A transaction of an order; the amount is given in 1/10000 cent.
FinancialRow(order, invoice_date, due_date, amount, payment_date) ==
    [transaction_id |-> NaN,
     order_id |-> order.order_id,
     customer_id |-> order.customer_id,
     invoice_date |-> Some(invoice_date),
     due_date |-> Some(due_date),
     amount |-> IF IsNa(amount) THEN NaN ELSE Some(RoundHalfEven(amount[1], 10000)),
     payment_date |-> Some(payment_date)]

\* The factors of an amount: none, or any when the amount deviates.
AmountNoiseOptions(d) ==
    (IF FALSE \in Chance(error_rate, 10) THEN {0} ELSE {})
    \cup (IF TRUE \in Chance(error_rate, 10) THEN d.amount_noise ELSE {})

\* TransactionsOfOrder splitting an amount whatever it is.
TransactionsOfOrderSplittingAny(total, d) ==
    LET order   == total.order
        invoice == order.order_date[1]
        due     == invoice + TermDays(order.payment_terms[1])
        scaled(v, share) ==
            IF IsNa(total.line_total) THEN NaN
            ELSE Some(total.line_total[1] * (100 + v) * share)
    IN  (IF TRUE \in Chance(error_rate, 2) THEN {<<>>} ELSE {})
        \cup {<<FinancialRow(order, invoice + shift, due, scaled(v, 100), due + delay)>> :
                shift \in {0} \cup d.shift, delay \in d.delay, v \in AmountNoiseOptions(d)}
        \cup UNION {
               {<<FinancialRow(order, invoice + w[1], due, scaled(v, w[3]), due + w[2]),
                  FinancialRow(order, invoice + w[1], due, scaled(v, 100 - w[3]),
                               due + w[2] + w[4])>> :
                   w \in ({0} \cup d.shift) \X d.delay \X d.split_ratio \X d.split_gap} :
               v \in AmountNoiseOptions(d)}

\* One pass of the loop of generate_financial_transactions: the order is
\* left out, or gets one transaction, or two when the amount is split.  The
\* due date is computed before the invoice date is shifted.
TransactionsOfOrder(total, d) ==
    LET order   == total.order
        invoice == order.order_date[1]
        due     == invoice + TermDays(order.payment_terms[1])
        scaled(v, share) ==
            IF IsNa(total.line_total) THEN NaN
            ELSE Some(total.line_total[1] * (100 + v) * share)
        above1000(v) ==
            /\ ~IsNa(total.line_total)
            /\ total.line_total[1] * (100 + v) > 100000 * 100
    IN  (IF TRUE \in Chance(error_rate, 2) THEN {<<>>} ELSE {})
        \cup {<<FinancialRow(order, invoice + shift, due, scaled(v, 100), due + delay)>> :
                shift \in {0} \cup d.shift, delay \in d.delay, v \in AmountNoiseOptions(d)}
        \cup UNION {
               {<<FinancialRow(order, invoice + w[1], due, scaled(v, w[3]), due + w[2]),
                  FinancialRow(order, invoice + w[1], due, scaled(v, 100 - w[3]),
                               due + w[2] + w[4])>> :
                   w \in ({0} \cup d.shift) \X d.delay \X d.split_ratio \X d.split_gap} :
               v \in {u \in AmountNoiseOptions(d) : above1000(u)}}

\* The rows with their transaction ids.
Numbered(rows) ==
    [i \in 1..Len(rows) |-> [rows[i] EXCEPT !.transaction_id = Id("FT", i)]]

\* generate_financial_transactions(sales_orders, order_items): the tables it
\* can return.
FinancialTables(orders, items, d) ==
    LET totals == OrdersWithTotals(orders, items)
    IN  {Numbered(rows) :
            rows \in ConcatAll([i \in 1..Len(totals) |-> TransactionsOfOrder(totals[i], d)])}

\* order_items.groupby('order_id') or the merge on 'order_id' of a table
\* that has no column.
FinancialRaises(orders, items) == items = <<>> \/ orders = <<>>

GeneratorRaised(type, function) == <<[type |-> type, function |-> function]>>

\* BusinessDataGenerator(error_rate=...): the master tables are generated.
Construct(d) ==
    /\ gen_pc = "idle"
    /\ error_rate' \in ErrorRates
    /\ gen_products' \in ProductTables(d)
    /\ gen_customers' \in CustomerTables(d)
    /\ gen_pc' = "constructed"
    /\ UNCHANGED <<gen_sales_orders, gen_order_items, gen_inventory_transactions,
                   gen_financial_transactions, dataset, gen_exc>>
    /\ UNCHANGED pipeline_vars

\* generate_all_data is called, and calls generate_sales_orders.
CallGenerateAllData ==
    /\ gen_pc = "constructed"
    /\ gen_pc' = "generate_sales_orders"
    /\ UNCHANGED <<error_rate, gen_products, gen_customers, gen_sales_orders,
                   gen_order_items, gen_inventory_transactions,
                   gen_financial_transactions, dataset, gen_exc>>
    /\ UNCHANGED pipeline_vars

GenerateSalesOrders(d) ==
    /\ gen_pc = "generate_sales_orders"
    /\ IF SalesOrdersRaise
       THEN /\ gen_exc' = GeneratorRaised("ValueError", "generate_sales_orders")
            /\ gen_pc' = "raised"
            /\ UNCHANGED gen_sales_orders
       ELSE /\ gen_sales_orders' \in SalesOrderTables(d)
            /\ gen_pc' = "sales_orders done"
            /\ UNCHANGED gen_exc
    /\ UNCHANGED <<error_rate, gen_products, gen_customers, gen_order_items,
                   gen_inventory_transactions, gen_financial_transactions, dataset>>
    /\ UNCHANGED pipeline_vars

GenerateOrderItems(d) ==
    /\ gen_pc = "generate_order_items"
    /\ \/ /\ gen_order_items' \in OrderItemTables(gen_sales_orders, gen_products, d)
          /\ gen_pc' = "order_items done"
          /\ UNCHANGED gen_exc
       \/ /\ OrderItemsRaise(gen_sales_orders, gen_products)
          /\ gen_exc' = GeneratorRaised("ValueError", "generate_order_items")
          /\ gen_pc' = "raised"
          /\ UNCHANGED gen_order_items
    /\ UNCHANGED <<error_rate, gen_products, gen_customers, gen_sales_orders,
                   gen_inventory_transactions, gen_financial_transactions, dataset>>
    /\ UNCHANGED pipeline_vars

GenerateInventoryTransactions(d) ==
    /\ gen_pc = "generate_inventory_transactions"
    /\ IF InventoryRaises
       THEN /\ gen_exc' = GeneratorRaised("ValueError", "generate_inventory_transactions")
            /\ gen_pc' = "raised"
            /\ UNCHANGED gen_inventory_transactions
       ELSE /\ gen_inventory_transactions' \in InventoryTables(d)
            /\ gen_pc' = "inventory_transactions done"
            /\ UNCHANGED gen_exc
    /\ UNCHANGED <<error_rate, gen_products, gen_customers, gen_sales_orders,
                   gen_order_items, gen_financial_transactions, dataset>>
    /\ UNCHANGED pipeline_vars

\* GenerateFinancialTransactions over the items of another call of
\* generate_order_items.
GenerateFinancialTransactionsOfNewItems(d) ==
    /\ gen_pc = "generate_financial_transactions"
    /\ \E items \in OrderItemTables(gen_sales_orders, gen_products, d) :
          IF FinancialRaises(gen_sales_orders, items)
          THEN /\ gen_exc' = GeneratorRaised("KeyError", "generate_financial_transactions")
               /\ gen_pc' = "raised"
               /\ UNCHANGED gen_financial_transactions
          ELSE /\ gen_financial_transactions' \in FinancialTables(gen_sales_orders, items, d)
               /\ gen_pc' = "financial_transactions done"
               /\ UNCHANGED gen_exc
    /\ UNCHANGED <<error_rate, gen_products, gen_customers, gen_sales_orders,
                   gen_order_items, gen_inventory_transactions, dataset>>
    /\ UNCHANGED pipeline_vars

GenerateFinancialTransactions(d) ==
    /\ gen_pc = "generate_financial_transactions"
    /\ IF FinancialRaises(gen_sales_orders, gen_order_items)
       THEN /\ gen_exc' = GeneratorRaised("KeyError", "generate_financial_transactions")
            /\ gen_pc' = "raised"
            /\ UNCHANGED gen_financial_transactions
       ELSE /\ gen_financial_transactions'
                   \in FinancialTables(gen_sales_orders, gen_order_items, d)
            /\ gen_pc' = "financial_transactions done"
            /\ UNCHANGED gen_exc
    /\ UNCHANGED <<error_rate, gen_products, gen_customers, gen_sales_orders,
                   gen_order_items, gen_inventory_transactions, dataset>>
    /\ UNCHANGED pipeline_vars

\* The function generate_all_data calls after the one that has returned.
NextCall(done) ==
    CASE done = "sales_orders done" -> "generate_order_items"
      [] done = "order_items done" -> "generate_inventory_transactions"
      [] done = "inventory_transactions done" -> "generate_financial_transactions"

\* generate_all_data binds the table returned and calls the next function.
CallNextGenerator ==
    /\ gen_pc \in {"sales_orders done", "order_items done", "inventory_transactions done"}
    /\ gen_pc' = NextCall(gen_pc)
    /\ UNCHANGED <<error_rate, gen_products, gen_customers, gen_sales_orders,
                   gen_order_items, gen_inventory_transactions,
                   gen_financial_transactions, dataset, gen_exc>>
    /\ UNCHANGED pipeline_vars

\* generate_all_data returns the dict of the six tables.
ReturnDataset ==
    /\ gen_pc = "financial_transactions done"
    /\ dataset' = << [key |-> "products", value |-> gen_products],
                     [key |-> "customers", value |-> gen_customers],
                     [key |-> "sales_orders", value |-> gen_sales_orders],
                     [key |-> "order_items", value |-> gen_order_items],
                     [key |-> "inventory_transactions", value |-> gen_inventory_transactions],
                     [key |-> "financial_transactions", value |-> gen_financial_transactions] >>
    /\ gen_pc' = "returned"
    /\ UNCHANGED <<error_rate, gen_products, gen_customers, gen_sales_orders,
                   gen_order_items, gen_inventory_transactions,
                   gen_financial_transactions, gen_exc>>
    /\ UNCHANGED pipeline_vars

\* No run of the pipeline has been started.
PipelineIdle ==
    /\ data = <<>>
    /\ clock = 1
    /\ pc = "idle"
    /\ idx = 1
    /\ bronze_layer = <<>>
    /\ silver_layer = <<>>
    /\ gold_layer = <<>>
    /\ processing_steps = <<>>
    /\ log = <<>>
    /\ handlers = 0
    /\ exc = <<>>
    /\ pipeline = <<>>
    /\ pipeline_running = FALSE
    /\ previous = <<>>

InitGen == PipelineIdle /\ GeneratorIdle

NextGen ==
    \/ Construct(Draws)
    \/ CallGenerateAllData
    \/ GenerateSalesOrders(Draws)
    \/ GenerateOrderItems(Draws)
    \/ GenerateInventoryTransactions(Draws)
    \/ GenerateFinancialTransactions(Draws)
    \/ CallNextGenerator
    \/ ReturnDataset

SpecGen == InitGen /\ [][NextGen]_vars

-----------------------------------------------------------------------------
(* C17: the order of generation *)

\* The positions of the constructor and of generate_all_data, in order.
GenerationOrder ==
    <<"idle", "constructed",
      "generate_sales_orders", "sales_orders done",
      "generate_order_items", "order_items done",
      "generate_inventory_transactions", "inventory_transactions done",
      "generate_financial_transactions", "financial_transactions done",
      "returned">>

Position(p) == CHOOSE i \in 1..Len(GenerationOrder) : GenerationOrder[i] = p

\* C17: the generator goes through its tables in one order: the products
\* and customers, then the sales orders, the order items, the inventory
\* transactions and the financial transactions, each table written in its
\* own step only; the financial transactions are generated after the order
\* items are complete, from the order items the dataset returns.
C17_GenerationOrder ==
    /\ [][/\ gen_pc' # gen_pc =>
                \/ gen_pc' = "raised"
                \/ Position(gen_pc') = Position(gen_pc) + 1
          /\ <<gen_products, gen_customers>>' # <<gen_products, gen_customers>> =>
                gen_pc = "idle"
          /\ gen_sales_orders' # gen_sales_orders =>
                gen_pc = "generate_sales_orders"
          /\ gen_order_items' # gen_order_items =>
                gen_pc = "generate_order_items"
          /\ gen_inventory_transactions' # gen_inventory_transactions =>
                gen_pc = "generate_inventory_transactions"
          /\ gen_financial_transactions' # gen_financial_transactions =>
                gen_pc = "generate_financial_transactions"]_vars
    /\ [](gen_pc = "returned" =>
            /\ Keys(dataset) = <<"products", "customers", "sales_orders", "order_items",
                                 "inventory_transactions", "financial_transactions">>
            /\ Get(dataset, "products") = gen_products
            /\ Get(dataset, "customers") = gen_customers
            /\ Get(dataset, "sales_orders") = gen_sales_orders
            /\ Get(dataset, "order_items") = gen_order_items
            /\ Get(dataset, "inventory_transactions") = gen_inventory_transactions
            /\ Get(dataset, "financial_transactions")
                  \in FinancialTables(Get(dataset, "sales_orders"),
                                      Get(dataset, "order_items"), Draws))

\* A dataset was returned with rows in every table.
C17_Witness ==
    /\ gen_pc = "returned"
    /\ \A i \in 1..Len(dataset) : dataset[i].value # <<>>

-----------------------------------------------------------------------------
(* C18: references between the generated tables *)

\* The cells of a column of a generated table.
Cells(table, c) == {table[i][c] : i \in 1..Len(table)}

\* C18: whatever the error rate, each order item names a generated sales
\* order and a generated product, each financial transaction names a
\* generated sales order, and each inventory transaction names a generated
\* product or no product.
C18_ReferencesResolve ==
    /\ \A item \in Range(gen_order_items) :
           /\ item.order_id \in Cells(gen_sales_orders, "order_id")
           /\ item.product_id \in Cells(gen_products, "product_id")
    /\ \A ft \in Range(gen_financial_transactions) :
           ft.order_id \in Cells(gen_sales_orders, "order_id")
    /\ \A move \in Range(gen_inventory_transactions) :
           \/ IsNa(move.product_id)
           \/ move.product_id \in Cells(gen_products, "product_id")

\* A dataset generated with errors: an order without customer has items and
\* a transaction, an inventory transaction has no product.
C18_Witness ==
    /\ gen_pc = "returned"
    /\ error_rate > 0
    /\ \E o \in Range(gen_sales_orders) : IsNa(o.customer_id)
    /\ Len(gen_order_items) > 1
    /\ gen_financial_transactions # <<>>
    /\ \E move \in Range(gen_inventory_transactions) : IsNa(move.product_id)

-----------------------------------------------------------------------------
(* C19: the line total of an order item *)

\* C19: the line_total of every generated order item, with or without price
\* noise, is quantity * unit_price * (1 - discount) rounded to cents, over
\* the quantity, unit_price and discount of that row.
C19_LineTotalOfStoredValues ==
    \A item \in Range(gen_order_items) :
        item.line_total
            = Some(RoundHalfEven(
                  item.quantity[1] * item.unit_price[1] * (100 - item.discount[1]), 100))

-----------------------------------------------------------------------------
(* C20: the due date of a financial transaction *)

\* The sales order a financial transaction belongs to.
OrderOf(ft) == CHOOSE o \in Range(gen_sales_orders) : o.order_id = ft.order_id

\* C20: for every generated financial transaction, shifted or not, the days
\* from its invoice_date to its due_date are the days of the payment term of
\* its order.
C20_DueDateIsInvoiceDatePlusTerm ==
    \A ft \in Range(gen_financial_transactions) :
        ft.due_date[1] - ft.invoice_date[1] = TermDays(OrderOf(ft).payment_terms[1])

-----------------------------------------------------------------------------
(* A call of generate_financial_transactions(sales_orders, order_items) *)

\* self.customers: a customer of each payment term.
CustomersOfEachTerm ==
    << [customer_id |-> Id("C", 1), payment_terms |-> Some("Net30"), department |-> Some("IT")],
       [customer_id |-> Id("C", 2), payment_terms |-> Some("Net45"), department |-> Some("IT")],
       [customer_id |-> Id("C", 3), payment_terms |-> Some("Net60"), department |-> Some("IT")],
       [customer_id |-> Id("C", 4), payment_terms |-> Some("Immediate"),
        department |-> Some("IT")] >>

\* self.products: a product of 500.00 and one of 500.01.
ProductsOfTwoPrices ==
    << [product_id |-> Id("P", 1), unit_price |-> Some(50000)],
       [product_id |-> Id("P", 2), unit_price |-> Some(50001)] >>

\* Items generate_order_items can return for an order over ProductsOfTwoPrices:
\* none when the order can be left out, or items of 500.01, of 1000.00, or
\* of 500.00 and 500.01.
ItemMenu(order, rate) ==
    (IF TRUE \in Chance(rate, 3) THEN {<<>>} ELSE {})
    \cup {<<ItemRow(order, ProductsOfTwoPrices[2], 1, 0, 0)>>,
          <<ItemRow(order, ProductsOfTwoPrices[1], 2, 0, 0)>>,
          <<ItemRow(order, ProductsOfTwoPrices[1], 1, 0, 0),
            ItemRow(order, ProductsOfTwoPrices[2], 1, 0, 0)>>}

\* The draws of a call of generate_financial_transactions.
DrawsFin ==
    [Draws EXCEPT !.shift = {5}, !.delay = {0, 5}, !.amount_noise = {-5, 5},
                  !.split_ratio = {30, 50}, !.split_gap = {1, 10}]

\* generate_sales_orders and generate_order_items have returned the tables
\* generate_financial_transactions is called with.
InitFin ==
    /\ PipelineIdle
    /\ gen_pc = "generate_financial_transactions"
    /\ error_rate \in ErrorRates
    /\ gen_products = ProductsOfTwoPrices
    /\ gen_customers = CustomersOfEachTerm
    /\ gen_sales_orders \in SalesOrdersOf(MaxOrders, gen_customers, error_rate, DrawsFin)
    /\ gen_order_items
          \in ConcatAll([i \in 1..Len(gen_sales_orders) |->
                           ItemMenu(gen_sales_orders[i], error_rate)])
    /\ gen_inventory_transactions = <<>>
    /\ gen_financial_transactions = <<>>
    /\ dataset = <<>>
    /\ gen_exc = <<>>

NextFin == GenerateFinancialTransactions(DrawsFin)

SpecFin == InitFin /\ [][NextFin]_vars

-----------------------------------------------------------------------------
(* C21: split financial transactions *)

\* The transactions generated for an order.
TransactionsOf(order) ==
    SelectSeq(gen_financial_transactions, LAMBDA ft : ft.order_id = order.order_id)

\* The sum of the line totals of the items of the i-th order.
TotalOf(i) == OrdersWithTotals(gen_sales_orders, gen_order_items)[i].line_total

\* The amounts an order's total can be before a split, in 1/100 cent: the
\* total as it is or perturbed.
PreSplitAmounts(total, d) ==
    IF IsNa(total) THEN {}
    ELSE {total[1] * (100 + v) : v \in AmountNoiseOptions(d)}

Distance(a, b) == IF a < b THEN b - a ELSE a - b

\* C21: an order gets at most two transactions, and when it gets two the
\* amount before the split is above 1000.00, the two stored amounts add up
\* to it within 1 cent, the second payment date is 1 to 10 days after the
\* first, and order_id, customer_id, invoice_date and due_date are the same
\* in both.
C21_SplitPairs ==
    \A i \in 1..Len(gen_sales_orders) :
        LET pair == TransactionsOf(gen_sales_orders[i])
        IN  /\ Len(pair) <= 2
            /\ Len(pair) = 2 =>
                  /\ \E pre \in PreSplitAmounts(TotalOf(i), DrawsFin) :
                        /\ pre > 1000 * 100 * 100
                        /\ Distance(100 * (pair[1].amount[1] + pair[2].amount[1]), pre)
                              <= 100
                  /\ pair[2].payment_date[1] - pair[1].payment_date[1] \in 1..10
                  /\ pair[1].order_id = pair[2].order_id
                  /\ pair[1].customer_id = pair[2].customer_id
                  /\ pair[1].invoice_date = pair[2].invoice_date
                  /\ pair[1].due_date = pair[2].due_date

\* An order of 1000.01 was split in halves of 500.00, paid 10 days apart.
C21_Witness ==
    /\ gen_pc = "financial_transactions done"
    /\ \E i \in 1..Len(gen_sales_orders) :
          LET pair == TransactionsOf(gen_sales_orders[i])
          IN  /\ Len(pair) = 2
              /\ TotalOf(i) = Some(100001)
              /\ pair[1].amount = Some(50000)
              /\ pair[2].amount = Some(50000)
              /\ pair[2].payment_date[1] - pair[1].payment_date[1] = 10

-----------------------------------------------------------------------------
(* generate_all_data of a generator constructed with error_rate = 0 *)

\* self.products: as many products as an order can have items, the fewest
\* of which products.sample(num_items) always delivers.
ProductsOfFive ==
    LET prices == <<1240, 4999, 25050, 60000, 100001>>
    IN  [i \in 1..ItemsPerOrderMax |->
            [product_id |-> Id("P", i), unit_price |-> Some(prices[i])]]

\* The draws of the run.
DrawsClean ==
    [Draws EXCEPT !.quantity = {1}, !.discount = {0}, !.shift = {1}, !.delay = {0},
                  !.split_ratio = {50}, !.split_gap = {1}]

\* BusinessDataGenerator(error_rate=0) has been constructed.
InitClean ==
    /\ PipelineIdle
    /\ gen_pc = "constructed"
    /\ error_rate = 0
    /\ gen_products = ProductsOfFive
    /\ gen_customers \in CustomerTables(DrawsClean)
    /\ gen_sales_orders = <<>>
    /\ gen_order_items = <<>>
    /\ gen_inventory_transactions = <<>>
    /\ gen_financial_transactions = <<>>
    /\ dataset = <<>>
    /\ gen_exc = <<>>

NextClean ==
    \/ CallGenerateAllData
    \/ GenerateSalesOrders(DrawsClean)
    \/ GenerateOrderItems(DrawsClean)
    \/ GenerateInventoryTransactions(DrawsClean)
    \/ GenerateFinancialTransactions(DrawsClean)
    \/ CallNextGenerator
    \/ ReturnDataset

SpecClean == InitClean /\ [][NextClean]_vars

-----------------------------------------------------------------------------
(* C22: no fault is injected at error_rate = 0 *)

\* The positions from p on: what was generated up to p is there.
From(p) == {GenerationOrder[i] : i \in Position(p)..Len(GenerationOrder)}

\* The items generated for an order.
ItemsOf(order) ==
    SelectSeq(gen_order_items, LAMBDA item : item.order_id = order.order_id)

\* C22: with error_rate = 0 every sales order has a customer_id, every
\* sales order has 1 to 5 order items, each of a product of the master,
\* every inventory transaction has a product_id, and every order has one
\* financial transaction of the sum of its line totals, or two that add up
\* to it within a cent.
C22_NoFaultAtRateZero ==
    error_rate = 0 =>
        /\ \A o \in Range(gen_sales_orders) : ~IsNa(o.customer_id)
        /\ gen_pc \in From("order_items done") =>
              /\ \A o \in Range(gen_sales_orders) :
                     Len(ItemsOf(o)) \in 1..ItemsPerOrderMax
              /\ Len(gen_order_items) \in Len(gen_sales_orders)
                                             ..(ItemsPerOrderMax * Len(gen_sales_orders))
              /\ \A item \in Range(gen_order_items) :
                     item.product_id \in Cells(gen_products, "product_id")
        /\ \A move \in Range(gen_inventory_transactions) : ~IsNa(move.product_id)
        /\ gen_pc \in From("financial_transactions done") =>
              \A i \in 1..Len(gen_sales_orders) :
                  LET own == TransactionsOf(gen_sales_orders[i])
                      sum == SumCells(Column(ItemsOf(gen_sales_orders[i]), "line_total"))
                  IN  \/ Len(own) = 1 /\ own[1].amount = Some(sum)
                      \/ /\ Len(own) = 2
                         /\ Distance(own[1].amount[1] + own[2].amount[1], sum) <= 1

\* A dataset was returned in which an order has five items and a split pair
\* of transactions.
C22_Witness ==
    /\ gen_pc = "returned"
    /\ error_rate = 0
    /\ gen_inventory_transactions # <<>>
    /\ \E o \in Range(gen_sales_orders) :
          /\ Len(ItemsOf(o)) = ItemsPerOrderMax
          /\ Len(TransactionsOf(o)) = 2

-----------------------------------------------------------------------------
(* Calls of the four generators on tables that may be empty *)

\* The order items a call of generate_financial_transactions is given: no
\* table, or items of the orders given, or of an order when none is given.
ItemsGiven(orders, rate) ==
    LET of == IF orders # <<>> THEN orders
              ELSE CHOOSE o \in SalesOrdersOf(1, CustomersOfEachTerm, 0, Draws) : TRUE
    IN  {<<>>} \cup ConcatAll([i \in 1..Len(of) |-> ItemMenu(of[i], rate)])

\* One of the four generators is called on a generator object whose master
\* tables, and with arguments that, have rows or none.
InitUpstream ==
    /\ PipelineIdle
    /\ gen_pc \in {"generate_sales_orders", "generate_order_items",
                    "generate_inventory_transactions", "generate_financial_transactions"}
    /\ error_rate \in ErrorRates
    /\ gen_products \in {<<>>} \cup ProductTables(Draws)
    /\ gen_customers \in {<<>>, CustomersOfEachTerm}
    /\ gen_sales_orders
          \in {<<>>} \cup SalesOrdersOf(MaxOrders, CustomersOfEachTerm, error_rate, Draws)
    /\ gen_order_items \in ItemsGiven(gen_sales_orders, error_rate)
    /\ gen_inventory_transactions = <<>>
    /\ gen_financial_transactions = <<>>
    /\ dataset = <<>>
    /\ gen_exc = <<>>

NextUpstream ==
    \/ GenerateSalesOrders(Draws)
    \/ GenerateOrderItems(Draws)
    \/ GenerateInventoryTransactions(Draws)
    \/ GenerateFinancialTransactions(Draws)

SpecUpstream == InitUpstream /\ [][NextUpstream]_vars

-----------------------------------------------------------------------------
(* C23: an empty upstream table *)

\* C23: no generator returns a table when a table it requires is empty:
\* generate_sales_orders requires the customers, generate_order_items the
\* sales orders and the products, generate_inventory_transactions the
\* products, generate_financial_transactions the sales orders and the order
\* items.
C23_EmptyUpstreamFailsFast ==
    /\ gen_pc = "sales_orders done" => gen_customers # <<>>
    /\ gen_pc = "order_items done" => gen_sales_orders # <<>> /\ gen_products # <<>>
    /\ gen_pc = "inventory_transactions done" => gen_products # <<>>
    /\ gen_pc = "financial_transactions done" =>
          gen_sales_orders # <<>> /\ gen_order_items # <<>>

-----------------------------------------------------------------------------
(* C24: the metrics log of a run *)

\* The metrics log of a run over the sources of data, once Gold is done.
StepsOfCompleteRun ==
    LET n == Len(data)
    IN  /\ Len(processing_steps) = 2 * n + 1
        /\ \A i \in 1..n :
              processing_steps[i]
                  = [layer |-> "Bronze", source |-> data[i].key,
                     records |-> Len(data[i].value.rows)]
        /\ \A i \in 1..n :
              processing_steps[n + i]
                  = [layer |-> "Silver", source |-> data[i].key,
                     valid_records |-> Len(Get(silver_layer, data[i].key).data.rows),
                     invalid_records |->
                         Len(Get(silver_layer, data[i].key).invalid_records.rows)]
        /\ processing_steps[2 * n + 1] = [layer |-> "Gold", views |-> Keys(gold_layer)]

\* C24: once Gold is done, the metrics log holds a Bronze entry for each
\* source of the input, in the order of the input and with its record count,
\* then a Silver entry for each source with its valid and invalid counts,
\* then one Gold entry with the views computed; within a run the log only
\* grows by entries appended.
C24_MetricsLogOfRun ==
    /\ [](GoldDone => StepsOfCompleteRun)
    /\ [][\/ processing_steps' = processing_steps
          \/ /\ Len(processing_steps') = Len(processing_steps) + 1
             /\ SubSeq(processing_steps', 1, Len(processing_steps)) = processing_steps
          \/ pc = "idle" /\ processing_steps' = <<>>]_vars

\* A run over several sources is complete: Silver has set records aside and
\* Gold has computed a view.
C24_Witness ==
    /\ pc = "done"
    /\ Len(data) > 1
    /\ gold_layer # <<>>
    /\ \E i \in 1..Len(processing_steps) :
          /\ processing_steps[i].layer = "Silver"
          /\ processing_steps[i].invalid_records > 0

-----------------------------------------------------------------------------
(* C25: a run starts from nothing *)

\* C25: a run starts with empty Bronze, Silver and Gold layers, an empty
\* metrics log and one handler on the logger, whether the run before it
\* completed or raised; while it runs, Bronze and the metrics log hold what
\* this run has loaded, Silver what this run has validated, and the logger
\* never has more than its one handler.
C25_RunStartsEmpty ==
    /\ [][pc = "idle" /\ pc' # "idle" =>
            /\ pc' = "bronze"
            /\ idx' = 1
            /\ bronze_layer' = <<>>
            /\ silver_layer' = <<>>
            /\ gold_layer' = <<>>
            /\ processing_steps' = <<>>
            /\ handlers' = 1]_vars
    /\ [](pc = "bronze" =>
            /\ Keys(bronze_layer) = SubSeq(Keys(data), 1, idx - 1)
            /\ Len(processing_steps) = idx - 1
            /\ silver_layer = <<>>
            /\ gold_layer = <<>>)
    /\ [](pc = "silver" =>
            /\ Keys(silver_layer) = SubSeq(Keys(data), 1, idx - 1)
            /\ gold_layer = <<>>)
    /\ [](handlers <= 1 /\ (pc # "idle" => handlers = 1))

\* A run has loaded a source in a session opened after a run that raised.
C25_Witness ==
    /\ pc = "bronze"
    /\ idx > 1
    /\ previous # <<>>
    /\ handlers = 1

-----------------------------------------------------------------------------
(* C26: the order count of a department *)

\* The valid sales orders of a department.
ValidOrdersOf(department) ==
    SelectSeq(SilverRows("sales_orders"), LAMBDA o : o.department = department)

\* C26: when the valid sales orders have distinct order ids, the order_count
\* of each row of sales_metrics is the number of valid sales orders of its
\* department, whatever the number of items of an order.
C26_OrderCountIsOrdersOfDepartment ==
    GoldDone /\ Has(gold_layer, "sales_metrics")
             /\ IsKey(SilverRows("sales_orders"), "order_id") =>
        \A row \in Range(Get(gold_layer, "sales_metrics").rows) :
            row.order_count = Some(Len(ValidOrdersOf(row.department)))

-----------------------------------------------------------------------------
(* C27: the flag pipeline_running *)

\* C27: pipeline_running is true only while a run is executing: once the
\* run has returned or a stage has raised it is false, and the button is
\* enabled when main waits for it.
C27_FlagOnlyWhileRunning ==
    pipeline_running => pc \in {"bronze", "silver", "gold", "display"}

-----------------------------------------------------------------------------
(* Generated financial transactions, saved, loaded and validated *)

\* Rows of the sales_orders table generate_financial_transactions is given.
MaxOrdersGiven == 2

\* generate_sales_orders and generate_order_items have returned the tables
\* generate_financial_transactions is called with; no csv file is written.
InitValidated ==
    /\ PipelineIdle
    /\ gen_pc = "generate_financial_transactions"
    /\ error_rate \in ErrorRates
    /\ gen_products = ProductsOfTwoPrices
    /\ gen_customers = SubSeq(CustomersOfEachTerm, 1, 1)
    /\ gen_sales_orders
          \in SalesOrdersOf(MaxOrdersGiven, gen_customers, error_rate, DrawsClean)
    /\ gen_order_items
          \in ConcatAll([i \in 1..Len(gen_sales_orders) |->
                           ItemMenu(gen_sales_orders[i], error_rate)])
    /\ gen_inventory_transactions = <<>>
    /\ gen_financial_transactions = <<>>
    /\ dataset = <<>>
    /\ gen_exc = <<>>

\* df.to_csv of the generated financial transactions and load_data of the
\* file: a table of no rows has no columns, read_csv raises on its file and
\* main returns before the button.
SaveAndLoad ==
    /\ gen_pc = "financial_transactions done"
    /\ gen_financial_transactions # <<>>
    /\ pc = "idle"
    /\ gen_pc' = "saved"
    /\ data' = << [key |-> "financial_transactions",
                   value |-> DataFrame(<<"transaction_id", "order_id", "customer_id",
                                         "invoice_date", "due_date", "amount",
                                         "payment_date">>,
                                       gen_financial_transactions)] >>
    /\ UNCHANGED <<clock, pc, idx, bronze_layer, silver_layer, gold_layer,
                   processing_steps, log, handlers, exc, pipeline, pipeline_running,
                   previous>>
    /\ UNCHANGED <<error_rate, gen_products, gen_customers, gen_sales_orders,
                   gen_order_items, gen_inventory_transactions,
                   gen_financial_transactions, dataset, gen_exc>>

NextValidated ==
    \/ GenerateFinancialTransactions(DrawsClean)
    \/ SaveAndLoad
    \/ data # <<>> /\ StartPipeline
    \/ ProcessToBronze
    \/ StartSilver
    \/ ProcessToSilver
    \/ ProcessToGold
    \/ ReturnPipeline
    \/ DisplayResults

SpecValidated == InitValidated /\ [][NextValidated]_vars

-----------------------------------------------------------------------------
(* C28: the transaction of an order without items *)

\* The orders that have no item, in a table in which other orders have.
OrdersWithoutItems ==
    {o \in Range(gen_sales_orders) : gen_order_items # <<>> /\ ItemsOf(o) = <<>>}

\* The rows of a table of transactions that belong to these orders.
RowsOfOrders(rows, orders) ==
    SelectSeq(rows, LAMBDA ft : \E o \in orders : ft.order_id = o.order_id)

\* C28: an order without items, in a run in which other orders have items,
\* gets at most one financial transaction; the amount of that transaction
\* is missing, and once Silver has validated the financial transactions it
\* is among the invalid records and not among the valid ones.
C28_OrderWithoutItems ==
    /\ \A o \in OrdersWithoutItems :
           /\ Len(TransactionsOf(o)) <= 1
           /\ \A ft \in Range(TransactionsOf(o)) : IsNa(ft.amount)
    /\ Has(silver_layer, "financial_transactions") =>
           LET entry == Get(silver_layer, "financial_transactions")
           IN  /\ RowsOfOrders(entry.data.rows, OrdersWithoutItems) = <<>>
               /\ RowsOfOrders(entry.invalid_records.rows, OrdersWithoutItems)
                     = RowsOfOrders(gen_financial_transactions, OrdersWithoutItems)

\* With every amount perturbed, an order without items has its transaction
\* among the invalid records, and the transaction of another order is valid.
C28_Witness ==
    /\ error_rate = 100
    /\ Has(silver_layer, "financial_transactions")
    /\ RowsOfOrders(Get(silver_layer, "financial_transactions").invalid_records.rows,
                    OrdersWithoutItems) # <<>>
    /\ Get(silver_layer, "financial_transactions").data.rows # <<>>

-----------------------------------------------------------------------------
(* C29: a payment before the invoice *)

\* The order of the sales orders given that a transaction belongs to.
OrderGivenOf(ft) == CHOOSE o \in Range(gen_sales_orders) : o.order_id = ft.order_id

\* C29: a generated financial transaction, the only one of its order or one
\* of a split pair, is paid before its invoice date only if its order has
\* the payment terms Immediate, its invoice date is after the order date
\* and the payment delay of the order is 0, that is the first payment of
\* the order is on the due date.
C29_PaidBeforeInvoiceOnlyIfImmediate ==
    \A ft \in Range(gen_financial_transactions) :
        Lt(ft.payment_date, ft.invoice_date) =>
            LET order == OrderGivenOf(ft)
                first == TransactionsOf(order)[1]
            IN  /\ order.payment_terms = Some("Immediate")
                /\ Gt(ft.invoice_date, order.order_date)
                /\ first.payment_date = first.due_date

\* Both transactions of the split pair of an order are paid before the
\* invoice date.
C29_Witness ==
    \E o \in Range(gen_sales_orders) :
        /\ Len(TransactionsOf(o)) = 2
        /\ \A ft \in Range(TransactionsOf(o)) : Lt(ft.payment_date, ft.invoice_date)

-----------------------------------------------------------------------------
(* A call of generate_order_items                                          *)

\* self.products: three products with unique ids.
ProductsOfThree == SubSeq(ProductsOfFive, 1, 3)

\* generate_order_items is called with a table of orders with unique ids, on
\* a generator that was constructed with error_rate 0 or 1.
InitItems ==
    /\ PipelineIdle
    /\ gen_pc = "generate_order_items"
    /\ error_rate \in {0, 100}
    /\ gen_products = ProductsOfThree
    /\ gen_customers = SubSeq(CustomersOfEachTerm, 1, 1)
    /\ gen_sales_orders \in SalesOrdersOf(MaxOrdersGiven, gen_customers, 0, DrawsClean)
    /\ gen_order_items = <<>>
    /\ gen_inventory_transactions = <<>>
    /\ gen_financial_transactions = <<>>
    /\ dataset = <<>>
    /\ gen_exc = <<>>

NextItems == GenerateOrderItems(DrawsClean)

SpecItems == InitItems /\ [][NextItems]_vars

-----------------------------------------------------------------------------
(* C30: the products of the items of an order *)

\* C30: in the table generate_order_items returns no two rows have the same
\* order_id and product_id, so the items of one order are of pairwise
\* distinct products, and no order has more items than there are products.
C30_ItemsOfDistinctProducts ==
    /\ \A i, j \in 1..Len(gen_order_items) :
          /\ gen_order_items[i].order_id = gen_order_items[j].order_id
          /\ gen_order_items[i].product_id = gen_order_items[j].product_id
          => i = j
    /\ \A o \in Range(gen_sales_orders) : Len(ItemsOf(o)) <= Len(gen_products)

\* Two orders have an item of every product each.
C30_Witness ==
    /\ gen_pc = "order_items done"
    /\ Len(gen_sales_orders) >= 2
    /\ \A o \in Range(gen_sales_orders) :
          {item.product_id : item \in Range(ItemsOf(o))}
              = {product.product_id : product \in Range(gen_products)}

=============================================================================
